---- MODULE Spec2Model ----
(***************************************************************************)
(* A model of pythonwhat's isolated task-execution protocol:               *)
(*   - local.py : WorkerProcess (the registry, the run loop, executeTask,  *)
(*                kill, kill_all), StubProcess/StubShell, run_exercise;    *)
(*   - tasks.py : the tasks that run against a shell's namespace.          *)
(* Spec    is the worker life cycle and the two-queue protocol.            *)
(* SpecEnv is the tasks acting on the namespaces of the two processes of   *)
(*         an exercise.                                                    *)
(***************************************************************************)
EXTENDS Integers, Sequences, FiniteSets, TLC

\* ------------------------------------------------------------------ bounds
MaxWorkers == 3
MaxTasks == 2

Workers == 1..MaxWorkers

\* Queue() is built without maxsize: multiprocessing then bounds it by the
\* platform's SEM_VALUE_MAX.
QueueMaxsize == 2147483647

VARIABLES
  \* ---- local.py: the worker life cycle (specification Spec)
  instances,      \* WorkerProcess.instances, the registry (a list)
  proc,           \* per worker: where its OS process is
  task_queue,     \* per worker: Queue of tasks
  result_queue,   \* per worker: Queue of results
  next_task,      \* per worker: the local next_task of run()
  nsub,           \* tasks submitted by executeTask so far (all workers)
  cpc,            \* the caller: "idle", or "wait" (blocked in result_queue.get())
  call,           \* the executeTask call in progress
  ka,             \* the kill_all() call in progress: what is left of its snapshot
  \* ---- tasks.py and run_exercise (specification SpecEnv)
  mode,           \* "none" before run_exercise, then its mode
  shells,         \* the shell of each process: user_ns
  scopes,         \* per process: the set-ups so far, and the __enter__ and
                  \* __exit__ calls made since the last set-up
  last,           \* the caller's last call on a process and what it gave
  stu_error,      \* the error run_exercise returned
  \* ---- State.py: Context (specification SpecCtx)
  ctxs,           \* the Context objects made so far, each with the Context
                  \* it was derived from and the update it was derived with
  \* ---- State.py: State (specification SpecState)
  states,         \* the State objects made so far; states[1] is the root
  slast,          \* the last to_child call: receiver, arguments, result
  \* ---- State.py: Dispatcher (specification SpecDisp)
  parser_cache,   \* Dispatcher._parser_cache
  pre_exercise_mappings,  \* Dispatcher.pre_exercise_mappings; made says
                  \* whether Dispatcher.__init__ has run
  visits,         \* per parser and tree: the visits run so far
  dlast,          \* the last request to the Dispatcher and its answer
  \* ---- State.py: parse_external (specification SpecParse)
  reports,        \* the tests handed to reporter.do_test, in order
  plast,          \* the last parse call and what it gave
  \* ---- local.py: run_exercise and ChDir (specification SpecRun)
  cwd,            \* os.getcwd() of the caller's process
  rlast,          \* the last run_exercise call and what it gave
  \* ---- local.py: kill (SpecKill); tasks.py: get_signature (SpecSig)
  klast,          \* the last kill() call: the worker, what it found and did
  glast           \* the last TaskGetSignature call and what it gave

evars == <<mode, shells, scopes, last, stu_error>>

wvars == <<instances, proc, task_queue, result_queue, next_task, nsub, cpc,
           call, ka>>

ctxvars == <<ctxs>>
stvars == <<states, slast>>
dvars == <<parser_cache, pre_exercise_mappings, visits, dlast>>
pvars == <<reports, plast>>
rvars == <<cwd, rlast>>
tvars == <<klast, glast>>
svars == <<ctxvars, stvars, dvars, pvars, rvars, tvars>>

vars == <<wvars, evars, svars>>

\* ------------------------------------------------------ local.py: values
\* proc[w]:
\*   "none"      the object is not constructed
\*   "new"       constructed, start() not called (is_alive() is False)
\*   "loop"      run() is blocked in task_queue.get() (alive)
\*   "returned"  run() returned after a TaskKillProcess, the process is exiting (alive)
\*   "raised"    run() ended by an exception, the process is exiting (alive)
\*   "exited"    the OS process is gone (is_alive() is False)
ProcStates == {"none", "new", "loop", "returned", "raised", "exited"}

is_alive(w) == proc[w] \in {"loop", "returned", "raised"}

\* The kinds of task a caller hands to executeTask:
\*   "ok"       a task whose __call__ returns a value
\*   "raise"    a task whose __call__ raises
\*   "badrecv"  a task whose bytes cannot be unpickled in the worker: get() raises
\*   "kill"     TaskKillProcess
TaskKinds == {"ok", "raise", "badrecv", "kill"}

Task(kind, id) == [kind |-> kind, id |-> id]

\* next_task before the first successful get(): the name is not bound.
Unbound == "unbound"

NoCall == [op |-> "none", w |-> 0, id |-> 0, kind |-> "none"]
NoKillAll == [active |-> FALSE, rest |-> <<>>, snap |-> {}]

\* An answer put on the result queue: a plain value or a list of error entries.
\* "of" is the id of the task message the worker consumed in that iteration.
ValueAnswer(id, v) == [of |-> id, kind |-> "value", value |-> v, entries |-> <<>>]
ListAnswer(id, es) == [of |-> id, kind |-> "list", value |-> "", entries |-> es]

\* A TaskKillProcess that answers like any other task.
TaskCallValue(task) == ValueAnswer(task.id, "value")

\* TaskKillProcess.__call__ returns None; an "ok" task returns its value.
TaskCall(task) ==
  IF task.kind = "kill" THEN ValueAnswer(task.id, "None")
  ELSE ValueAnswer(task.id, "value")

\* CaptureErrors.__exit__ recording the exception under another type.
CaptureErrorsUntyped(output, raised, msg) ==
  IF raised THEN Append(output, [type |-> "error", payload |-> msg])
  ELSE output

\* CaptureErrors.__exit__: an exception is appended to output and suppressed.
CaptureErrors(output, raised, msg) ==
  IF raised THEN Append(output, [type |-> "backend-error", payload |-> msg])
  ELSE output

\* Queue.put_nowait: raises Full on a full queue, else appends.
put_nowait(q, x) ==
  IF Len(q) >= QueueMaxsize THEN [q |-> q, raised |-> TRUE]
  ELSE [q |-> Append(q, x), raised |-> FALSE]

Remove(s, x) == SelectSeq(s, LAMBDA y : y # x)
Range(s) == {s[i] : i \in 1..Len(s)}

\* --------------------------------------------------- local.py: the worker
\* run() pushing the answer without the error capture of lines 90-93: the
\* answer and the error list are both put.
PushAnswerTwice(q, id, answer) ==
  LET put1 == put_nowait(q, answer)
  IN  IF answer.kind = "list" THEN put_nowait(put1.q, answer) ELSE put1

\* Lines 90-94 of run(): push the answer; if that raised, push the error.
PushAnswer(q, id, answer) ==
  LET put1 == put_nowait(q, answer)
      output == CaptureErrors(<<>>, put1.raised, "Full")
      put2 == IF Len(output) > 0 THEN put_nowait(put1.q, ListAnswer(id, output))
              ELSE [q |-> put1.q, raised |-> FALSE]
  IN  put2

\* One iteration of the loop of run(), from task_queue.get() to the test of
\* line 95.
RunIteration(w) ==
  /\ proc[w] = "loop"
  /\ task_queue[w] # <<>>
  /\ LET msg == Head(task_queue[w])
         recv_raises == msg.kind = "badrecv"
         call_raises == ~recv_raises /\ msg.kind = "raise"
         nt == IF recv_raises THEN next_task[w] ELSE msg.kind
         output == CaptureErrors(<<>>, recv_raises \/ call_raises,
                                 IF recv_raises THEN "unpickle" ELSE "task")
         answer == IF Len(output) > 0 THEN ListAnswer(msg.id, output)
                   ELSE TaskCall(msg)
         pushed == PushAnswer(result_queue[w], msg.id, answer)
     IN  /\ task_queue' = [task_queue EXCEPT ![w] = Tail(@)]
         /\ result_queue' = [result_queue EXCEPT ![w] = pushed.q]
         /\ next_task' = [next_task EXCEPT ![w] = nt]
         /\ proc' = [proc EXCEPT ![w] =
                       IF pushed.raised THEN "raised"
                       ELSE IF nt = Unbound THEN "raised"   \* NameError, line 95
                       ELSE IF nt = "kill" THEN "returned"
                       ELSE "loop"]
  /\ UNCHANGED <<instances, nsub, cpc, call, ka>>
  /\ UNCHANGED evars
  /\ UNCHANGED svars

\* The OS process of a worker whose run() has ended goes away.
ProcessExit(w) ==
  /\ proc[w] \in {"returned", "raised"}
  /\ proc' = [proc EXCEPT ![w] = "exited"]
  /\ UNCHANGED <<instances, task_queue, result_queue, next_task, nsub, cpc,
                 call, ka>>
  /\ UNCHANGED evars
  /\ UNCHANGED svars

\* --------------------------------------------------- local.py: the caller
\* WorkerProcess.__init__: two fresh queues, registered in instances.
WorkerInit(w) ==
  /\ cpc = "idle" /\ ~ka.active
  /\ proc[w] = "none"
  /\ \A v \in Workers : v < w => proc[v] # "none"
  /\ proc' = [proc EXCEPT ![w] = "new"]
  /\ instances' = Append(instances, w)
  /\ UNCHANGED <<task_queue, result_queue, next_task, nsub, cpc, call,
                 ka>>
  /\ UNCHANGED evars
  /\ UNCHANGED svars

\* Process.start()
Start(w) ==
  /\ cpc = "idle" /\ ~ka.active
  /\ proc[w] = "new"
  /\ proc' = [proc EXCEPT ![w] = "loop"]
  /\ UNCHANGED <<instances, task_queue, result_queue, next_task, nsub, cpc,
                 call, ka>>
  /\ UNCHANGED evars
  /\ UNCHANGED svars

\* executeTask, line 100: the task is put; the caller then blocks in get().
Submit(w, task, op) ==
  /\ task_queue' = [task_queue EXCEPT ![w] = put_nowait(@, task).q]
  /\ call' = [op |-> op, w |-> w, id |-> task.id, kind |-> task.kind]
  /\ cpc' = "wait"

ExecuteTask(w, kind) ==
  /\ cpc = "idle" /\ ~ka.active
  /\ proc[w] # "none"
  /\ nsub < MaxTasks
  /\ Submit(w, Task(kind, nsub + 1), "exec")
  /\ nsub' = nsub + 1
  /\ UNCHANGED <<instances, proc, result_queue, next_task, ka>>
  /\ UNCHANGED evars
  /\ UNCHANGED svars

\* executeTask, line 101: result_queue.get() returns the next item.
ExecuteTaskReturn ==
  /\ cpc = "wait" /\ call.op = "exec"
  /\ result_queue[call.w] # <<>>
  /\ result_queue' = [result_queue EXCEPT ![call.w] = Tail(@)]
  /\ cpc' = "idle"
  /\ call' = NoCall
  /\ UNCHANGED <<instances, proc, task_queue, next_task, nsub, ka>>
  /\ UNCHANGED evars
  /\ UNCHANGED svars

\* The shutdown task of kill(): TaskKillProcess().
KillTask == Task("kill", 0)

\* kill() sending the shutdown task without asking is_alive().
KillEntryAlways(w) ==
  /\ Submit(w, KillTask, "kill")
  /\ UNCHANGED <<instances, proc, result_queue, next_task, nsub>>

\* kill(), lines 105-106 and 111-112: a live worker is sent the shutdown
\* task; one that is not alive is only removed from the registry.
KillEntry(w) ==
  IF is_alive(w)
  THEN /\ Submit(w, KillTask, "kill")
       /\ UNCHANGED <<instances, proc, result_queue, next_task, nsub>>
  ELSE /\ instances' = Remove(instances, w)
       /\ UNCHANGED <<proc, task_queue, result_queue, next_task, nsub, cpc,
                      call>>

Kill(w) ==
  /\ cpc = "idle" /\ ~ka.active
  /\ proc[w] # "none"
  /\ KillEntry(w)
  /\ UNCHANGED ka
  /\ UNCHANGED evars
  /\ UNCHANGED svars

\* kill() without its lines 111-112.
KillFinishKeep(w, still_alive) == UNCHANGED instances

\* Lines 109-112 of kill(): raise when the process outlived the join,
\* else remove the instance from the registry.
KillFinish(w, still_alive) ==
  IF still_alive
  THEN UNCHANGED instances
  ELSE instances' = Remove(instances, w)

\* kill(), lines 106-112, once the shutdown task is answered: terminate(),
\* join(timeout=3.0), is_alive(). A process that has not exited by itself
\* either dies of the SIGTERM within the timeout or outlives it. An
\* exception of kill() inside kill_all() ends kill_all().
KillResume ==
  /\ cpc = "wait" /\ call.op = "kill"
  /\ result_queue[call.w] # <<>>
  /\ result_queue' = [result_queue EXCEPT ![call.w] = Tail(@)]
  /\ \E still_alive \in {b \in BOOLEAN : b => is_alive(call.w)} :
       /\ proc' = [proc EXCEPT ![call.w] = IF still_alive THEN @ ELSE "exited"]
       /\ KillFinish(call.w, still_alive)
       /\ ka' = IF still_alive THEN NoKillAll ELSE ka
  /\ cpc' = "idle"
  /\ call' = NoCall
  /\ UNCHANGED <<task_queue, next_task, nsub>>
  /\ UNCHANGED evars
  /\ UNCHANGED svars

\* kill_all(), line 120: the snapshot list(cls.instances).
KillAll ==
  /\ cpc = "idle" /\ ~ka.active
  /\ ka' = [active |-> TRUE, rest |-> instances, snap |-> Range(instances)]
  /\ UNCHANGED <<instances, proc, task_queue, result_queue, next_task, nsub,
                 cpc, call>>
  /\ UNCHANGED evars
  /\ UNCHANGED svars

\* kill_all(), line 121: instance.kill() for the next instance of the snapshot.
KillAllStep ==
  /\ cpc = "idle" /\ ka.active /\ ka.rest # <<>>
  /\ KillEntry(Head(ka.rest))
  /\ ka' = [ka EXCEPT !.rest = Tail(@)]
  /\ UNCHANGED evars
  /\ UNCHANGED svars

\* kill_all() returns when the snapshot is exhausted.
KillAllReturn ==
  /\ cpc = "idle" /\ ka.active /\ ka.rest = <<>>
  /\ ka' = NoKillAll
  /\ UNCHANGED <<instances, proc, task_queue, result_queue, next_task, nsub,
                 cpc, call>>
  /\ UNCHANGED evars
  /\ UNCHANGED svars

\* ===================================================== tasks.py: the tasks
\* ------------------------------------------------------- Python values
\* Every value is a record of the same shape: its type, and its integer or
\* string content.
IntV(n) == [t |-> "int", i |-> n, s |-> ""]
StrV(x) == [t |-> "str", i |-> 0, s |-> x]
BoolV(b) == [t |-> "bool", i |-> IF b THEN 1 ELSE 0, s |-> ""]
NoneV == [t |-> "None", i |-> 0, s |-> ""]
ExcV(msg, n) == [t |-> "exception", i |-> n, s |-> msg]

Digit(d) ==
  CASE d = 0 -> "0" [] d = 1 -> "1" [] d = 2 -> "2" [] d = 3 -> "3"
    [] d = 4 -> "4" [] d = 5 -> "5" [] d = 6 -> "6" [] d = 7 -> "7"
    [] d = 8 -> "8" [] d = 9 -> "9"

RECURSIVE Decimal(_)
Decimal(n) == IF n < 10 THEN Digit(n) ELSE Decimal(n \div 10) \o Digit(n % 10)

\* Python's str(): the decimal digits of an int, a str itself.
Str(v) ==
  CASE v.t = "int" -> IF v.i < 0 THEN "-" \o Decimal(-v.i) ELSE Decimal(v.i)
    [] v.t = "str" -> v.s
    [] v.t = "bool" -> IF v.i = 1 THEN "True" ELSE "False"
    [] v.t = "None" -> "None"
    [] OTHER -> v.s

\* dill.dumps(): a byte stream that holds the type and the content.
Dumps(v) == [t |-> "bytes", i |-> v.i, s |-> v.t \o ":" \o v.s]

\* The answer of a worker for a task that raised (local.py, CaptureErrors).
BackendErrorV(msg) == [t |-> "backend-error", i |-> 0, s |-> msg]

\* ----------------------------------------------------------- namespaces
\* A namespace is a function from the names it binds to their values.
EmptyNs == [n \in {} |-> NoneV]
Bind(ns, n, v) == [m \in (DOMAIN ns) \cup {n} |-> IF m = n THEN v ELSE ns[m]]
Update(ns, upd) ==
  [m \in (DOMAIN ns) \cup (DOMAIN upd) |-> IF m \in DOMAIN upd THEN upd[m] ELSE ns[m]]

\* A shell: user_ns, with its two reserved keys kept apart:
\*   has_env, env   '__env__' in user_ns, and user_ns['__env__']
\*   has_ctx, ctx   '__context_obj__' in user_ns, and user_ns['__context_obj__']
NewShell ==
  [user_ns |-> EmptyNs, has_env |-> FALSE, env |-> EmptyNs,
   has_ctx |-> FALSE, ctx |-> <<>>]

get_env(sh) == IF sh.has_env THEN sh.env ELSE sh.user_ns

\* get_env(shell.user_ns)[name] = v
set_in_env(sh, name, v) ==
  IF sh.has_env THEN [sh EXCEPT !.env = Bind(@, name, v)]
  ELSE [sh EXCEPT !.user_ns = Bind(@, name, v)]

\* utils.copy_env: a new mapping with the bindings of env.
copy_env(env) == [n \in DOMAIN env |-> env[n]]

\* ------------------------------------------------- code that is executed
\* A program is a sequence of statements: name = expression, or raise.
\* An expression is a constant, a name, or name + constant.
Const(v) == [k |-> "const", v |-> v, n |-> ""]
Name(n) == [k |-> "name", v |-> NoneV, n |-> n]
Plus(n, c) == [k |-> "plus", v |-> IntV(c), n |-> n]
Assign(n, e) == [op |-> "assign", name |-> n, e |-> e]
Raise == [op |-> "raise", name |-> "", e |-> Const(NoneV)]
\* raise cls("error"), cls being SystemExit, KeyboardInterrupt, ...
RaiseOf(cls) == [op |-> "raise", name |-> cls, e |-> Const(NoneV)]

\* eval(expression, ns)
Eval(e, ns) ==
  CASE e.k = "const" -> [raised |-> FALSE, v |-> e.v]
    [] e.k = "name" ->
         IF e.n \in DOMAIN ns THEN [raised |-> FALSE, v |-> ns[e.n]]
         ELSE [raised |-> TRUE, v |-> ExcV("NameError", 0)]
    [] e.k = "plus" ->
         IF e.n \notin DOMAIN ns THEN [raised |-> TRUE, v |-> ExcV("NameError", 0)]
         ELSE IF ns[e.n].t # "int" THEN [raised |-> TRUE, v |-> ExcV("TypeError", 0)]
         ELSE [raised |-> FALSE, v |-> IntV(ns[e.n].i + e.v.i)]

\* exec(code, ns): the statements in order; an exception stops the run and
\* leaves the bindings made so far.
RECURSIVE ExecFrom(_, _, _)
ExecFrom(code, i, ns) ==
  IF i > Len(code) THEN [ns |-> ns, raised |-> FALSE, msg |-> "", cls |-> ""]
  ELSE IF code[i].op = "raise"
  THEN [ns |-> ns, raised |-> TRUE, msg |-> "error",
        cls |-> IF code[i].name = "" THEN "Exception" ELSE code[i].name]
  ELSE LET r == Eval(code[i].e, ns)
       IN  IF r.raised THEN [ns |-> ns, raised |-> TRUE, msg |-> r.v.s, cls |-> r.v.s]
           ELSE ExecFrom(code, i + 1, Bind(ns, code[i].name, r.v))
Exec(code, ns) == ExecFrom(code, 1, ns)

\* What a task gives: the shell after it, and the value it returns or the
\* exception it raises; enters and exits are the __enter__ and __exit__
\* calls it made on scope managers.
Return(sh, v) ==
  [sh |-> sh, res |-> v, raised |-> FALSE, enters |-> <<>>, exits |-> <<>>]
Throw(sh, msg) ==
  [sh |-> sh, res |-> ExcV(msg, 0), raised |-> TRUE, enters |-> <<>>, exits |-> <<>>]

\* local.py: run_code(shell.run_code, code): exec on user_ns itself; any
\* exception becomes the error string.
\* The classes that derive from BaseException and not from Exception.
NotException == {"SystemExit", "KeyboardInterrupt", "GeneratorExit"}

\* run_code with 'except Exception': what is not caught is raised on.
run_codeException(sh, code) ==
  LET r == Exec(code, sh.user_ns)
  IN  [sh |-> [sh EXCEPT !.user_ns = r.ns],
       error |-> IF r.raised THEN StrV(r.msg) ELSE NoneV,
       raised |-> r.raised /\ r.cls \in NotException]

\* raised: whether an exception of the code leaves run_code; 'except
\* BaseException' lets none through.
run_code(sh, code) ==
  LET r == Exec(code, sh.user_ns)
  IN  [sh |-> [sh EXCEPT !.user_ns = r.ns],
       error |-> IF r.raised THEN StrV(r.msg) ELSE NoneV,
       raised |-> FALSE]

\* TaskCaptureOutput running the code on a copy of the namespace.
TaskCaptureOutputCopy(sh, code) == Return(sh, run_code(sh, code).error)

\* local.py: TaskCaptureOutput.__call__ (the error of the pair it returns)
TaskCaptureOutput(sh, code) ==
  LET r == run_code(sh, code)
  IN  IF r.raised THEN Throw(r.sh, r.error.s) ELSE Return(r.sh, r.error)

TaskIsDefined(sh, name) == Return(sh, BoolV(name \in DOMAIN get_env(sh)))

TaskGetOption(sh, name) ==
  IF name \in DOMAIN sh.user_ns THEN Return(sh, sh.user_ns[name])
  ELSE Throw(sh, "KeyError")

TaskEvalAst(sh, tree, name) ==
  LET r == Eval(tree, get_env(sh))
  IN  IF r.raised THEN Return(sh, NoneV)
      ELSE Return(set_in_env(sh, name, r.v), BoolV(TRUE))

TaskGetClass(sh, name) ==
  IF name \in DOMAIN get_env(sh) THEN Return(sh, StrV(get_env(sh)[name].t))
  ELSE Throw(sh, "KeyError")

\* A dict with the one key k.
DictV(k) == [t |-> "dict", i |-> 0, s |-> k]

\* isinstance(get_env(shell.user_ns)[name], klass), klass by its name; the
\* subscript raises KeyError for a name that is not bound.
TaskIsInstance(sh, name, klass) ==
  IF name \in DOMAIN get_env(sh) THEN Return(sh, BoolV(get_env(sh)[name].t = klass))
  ELSE Throw(sh, "KeyError")

\* key in get_env(shell.user_ns)[name]: the keys of a dict; an int, a bool
\* and None are no containers (TypeError). The programs run here bind no
\* str.
TaskHasKey(sh, name, key) ==
  IF name \notin DOMAIN get_env(sh) THEN Throw(sh, "KeyError")
  ELSE IF get_env(sh)[name].t = "dict"
  THEN Return(sh, BoolV(key = get_env(sh)[name].s))
  ELSE Throw(sh, "TypeError")

\* A value that dill cannot serialize (a lock, an open connection).
LockV == [t |-> "lock", i |-> 0, s |-> ""]
Picklable(v) == v.t # "lock"

TaskGetStream(sh, name) ==
  IF name \in DOMAIN get_env(sh) /\ Picklable(get_env(sh)[name])
  THEN Return(sh, Dumps(get_env(sh)[name]))
  ELSE Return(sh, NoneV)

\* A converter of the table is a function of the value: one that gives
\* the text of the value, and one that raises.
ConvStr == [raises |-> FALSE]
ConvRaise == [raises |-> TRUE]
Converted(v) == [t |-> "converted", i |-> 0, s |-> Str(v)]

\* TaskConvert.__call__: the converter on the value of the name.
TaskConvert(sh, name, converter) ==
  IF name \notin DOMAIN get_env(sh) THEN Throw(sh, "KeyError")
  ELSE IF converter.raises THEN Throw(sh, "converter error")
  ELSE Return(sh, Converted(get_env(sh)[name]))

\* ------------------------------------------------------- scope managers
\* One entry of TaskSetUpNewEnv's context list: how the manager that
\* context_expr gives behaves, and the name of optional_vars ("" for None).
\*   "ok"            evaluates, enters and exits
\*   "expr_raises"   evaluating context_expr raises
\*   "enter_raises"  __enter__ raises
\*   "unpack_fails"  optional_vars has several names and __enter__ gives
\*                   another number of values: the assert of line 490 fails
\*   "exit_raises"   __exit__ raises an Exception
\*   "exit_base"     __exit__ raises a BaseException that is no Exception
Ctx(beh, key) == [beh |-> beh, key |-> key]

\* What __enter__ returns.
EnterValue == IntV(1)

\* The manager object made from entry pos of the context list of the gen-th
\* set-up on a shell.
Manager(gen, pos, beh) == [gen |-> gen, pos |-> pos, beh |-> beh]

RECURSIVE CtxEnterFrom(_, _, _, _)
CtxEnterFrom(context_list, i, gen, acc) ==
  IF i > Len(context_list) THEN acc
  ELSE
    LET c == context_list[i]
        obj == Manager(gen, i, c.beh)
        appended == [acc EXCEPT !.context_objs = Append(@, obj)]
        entered == [appended EXCEPT !.enters = Append(@, obj)]
    IN  IF c.beh = "expr_raises"
        THEN [acc EXCEPT !.raised = TRUE, !.msg = "context_expr"]
        ELSE IF c.beh = "enter_raises"
        THEN [appended EXCEPT !.raised = TRUE, !.msg = "__enter__"]
        ELSE IF c.beh = "unpack_fails"
        THEN [entered EXCEPT !.raised = TRUE, !.msg = "AssertionError"]
        ELSE IF c.key = ""
        THEN CtxEnterFrom(context_list, i + 1, gen, entered)
        ELSE CtxEnterFrom(context_list, i + 1, gen,
               [entered EXCEPT !.env_update = Bind(@, c.key, EnterValue)])

\* context_env_update(context_list, env): evaluate and enter each manager.
context_env_update(context_list, gen) ==
  CtxEnterFrom(context_list, 1, gen,
    [env_update |-> EmptyNs, context_objs |-> <<>>, enters |-> <<>>,
     raised |-> FALSE, msg |-> ""])

RECURSIVE CtxExitFrom(_, _, _)
CtxExitFrom(context_objs, i, acc) ==
  IF i > Len(context_objs) THEN acc
  ELSE
    LET obj == context_objs[i]
        called == [acc EXCEPT !.exits = Append(@, obj)]
    IN  IF obj.beh = "exit_raises"
        THEN CtxExitFrom(context_objs, i + 1,
               [called EXCEPT !.got_error = ExcV("__exit__", obj.pos)])
        ELSE IF obj.beh = "exit_base"
        THEN [called EXCEPT !.raised = TRUE]
        ELSE CtxExitFrom(context_objs, i + 1, called)

\* context_objs_exit(context_objs): call __exit__ on each; an Exception is
\* kept and the loop goes on, anything else propagates.
context_objs_exit(context_objs) ==
  CtxExitFrom(context_objs, 1,
    [got_error |-> BoolV(FALSE), exits |-> <<>>, raised |-> FALSE])

TaskSetUpNewEnv(sh, context, gen) ==
  LET env0 == copy_env(sh.user_ns)
      r == context_env_update(context, gen)
  IN  IF r.raised
      THEN [sh |-> [sh EXCEPT !.has_env = TRUE, !.env = env0],
            res |-> ExcV(r.msg, 0), raised |-> FALSE,
            enters |-> r.enters, exits |-> <<>>]
      ELSE [sh |-> [sh EXCEPT !.has_env = TRUE,
                              !.env = Update(env0, r.env_update),
                              !.has_ctx = TRUE, !.ctx = r.context_objs],
            res |-> BoolV(TRUE), raised |-> FALSE,
            enters |-> r.enters, exits |-> <<>>]

TaskBreakDownNewEnv(sh) ==
  IF ~sh.has_ctx THEN Return(sh, BoolV(FALSE))     \* KeyError, caught
  ELSE
    LET r == context_objs_exit(sh.ctx)
        no_ctx == [sh EXCEPT !.has_ctx = FALSE, !.ctx = <<>>]
    IN  IF r.raised
        THEN [Return(sh, BoolV(FALSE)) EXCEPT !.exits = r.exits]
        ELSE IF ~sh.has_env
        THEN [Return(no_ctx, BoolV(FALSE)) EXCEPT !.exits = r.exits]
        ELSE [Return([no_ctx EXCEPT !.has_env = FALSE, !.env = EmptyNs],
                     r.got_error) EXCEPT !.exits = r.exits]

\* utils_env.set_context_vals: the context values are bound in the copy.
set_context_vals(env, context_vals) == Update(env, context_vals)

\* The marker of TaskRunTreeStoreEnv for a target name that is not bound.
Undefined == StrV("undefined")

\* TaskRunTreeStoreEnv answering a snippet that raises with the marker.
TaskRunTreeStoreEnvMarker(sh, t) ==
  LET env0 == set_context_vals(Update(copy_env(get_env(sh)), t.extra_env),
                               t.context_vals)
      r1 == Exec(t.pre_code, env0)
      r2 == IF r1.raised THEN r1 ELSE Exec(t.tree, r1.ns)
  IN  IF r2.raised \/ t.name \notin DOMAIN r2.ns THEN Return(sh, Undefined)
      ELSE Return(set_in_env(sh, t.tempname, r2.ns[t.name]),
                  StrV(Str(r2.ns[t.name])))

\* t: extra_env, context_vals (mappings, empty for None), pre_code (empty
\* for None), tree, name, tempname.
TaskRunTreeStoreEnv(sh, t) ==
  LET env0 == set_context_vals(Update(copy_env(get_env(sh)), t.extra_env),
                               t.context_vals)
      r1 == Exec(t.pre_code, env0)
      r2 == IF r1.raised THEN r1 ELSE Exec(t.tree, r1.ns)
  IN  IF r2.raised THEN Return(sh, NoneV)
      ELSE IF t.name \notin DOMAIN r2.ns THEN Return(sh, Undefined)
      ELSE Return(set_in_env(sh, t.tempname, r2.ns[t.name]),
                  StrV(Str(r2.ns[t.name])))

\* -------------------------------------------- the processes of an exercise
Procs == {"sol", "stu"}

\* StubProcess.__init__ / SimpleProcess.get_shell with one shell for all.
ShellOfShared(p) == "sol"

\* The shell a process works on: StubProcess.__init__ and
\* SimpleProcess.get_shell make a new StubShell for each process.
ShellOf(p) == p

\* An exception that reaches the caller instead of a value.
RaisedV(msg) == [t |-> "raised", i |-> 0, s |-> msg]

\* process.executeTask(task), r being task(shell). StubProcess lets the
\* exception of a task through; the loop of WorkerProcess.run answers with
\* the backend-error list and goes on.
executeTask(m, r) ==
  IF r.raised /\ m = "simple"
  THEN [r EXCEPT !.res = BackendErrorV(r.res.s), !.raised = FALSE]
  ELSE r

\* The converter table of the state, from class name to converter: none
\* is registered for the values that are staged in the other
\* specifications.
Converters == [c \in {} |-> ConvStr]

TempName == "_evaluation_object_"

\* The answer of TaskConvert as getRepresentation takes it: the
\* backend-error list of a worker becomes None.
ConvertStream(r) ==
  IF ~r.raised /\ r.res.t = "backend-error" THEN [r EXCEPT !.res = NoneV] ELSE r

\* getRepresentation(name, process) with the table converters.
getRepresentationOf(converters, sh, m, name) ==
  LET c == executeTask(m, TaskGetClass(sh, name))
  IN  IF c.raised THEN c
      ELSE IF c.res.t = "backend-error"
      THEN Throw(c.sh, "TypeError")      \* obj_class in converters, a list
      ELSE IF c.res.s \in DOMAIN converters
      THEN ConvertStream(executeTask(m, TaskConvert(c.sh, name, converters[c.res.s])))
      ELSE executeTask(m, TaskGetStream(c.sh, name))

\* getRepresentation(name, process)
getRepresentation(sh, m, name) == getRepresentationOf(Converters, sh, m, name)

\* The outcomes of 'strrep is "undefined"': the identity of two equal
\* strings is up to the interpreter; a string that came through the result
\* queue is a new object.
SameObject(m, strrep) ==
  IF strrep # Undefined \/ m = "simple" THEN {FALSE} ELSE BOOLEAN

\* getObjectAfterExpressionInProcess(process, **kwargs)
getObjectAfterExpressionInProcess(sh, m, t, same) ==
  LET r == executeTask(m, TaskRunTreeStoreEnv(sh, [t EXCEPT !.tempname = TempName]))
  IN  IF r.raised THEN [sh |-> r.sh, bs |-> r.res, strrep |-> NoneV, raised |-> TRUE]
      ELSE IF r.res = NoneV \/ same
      THEN [sh |-> r.sh, bs |-> NoneV, strrep |-> r.res, raised |-> FALSE]
      ELSE LET g == getRepresentation(r.sh, m, TempName)
           IN  [sh |-> g.sh, bs |-> g.res, strrep |-> r.res, raised |-> g.raised]

\* TaskGetTreeResult.__call__: the expression is evaluated in the
\* environment and its value stored under the name.
TaskGetTreeResult(sh, tree, name) ==
  LET r == Eval(tree, get_env(sh))
  IN  IF r.raised THEN Return(sh, NoneV)
      ELSE Return(set_in_env(sh, name, r.v), StrV(Str(r.v)))

\* bool(v)
Truthy(v) ==
  CASE v.t = "None" -> FALSE
    [] v.t \in {"bool", "int"} -> v.i # 0
    [] v.t = "str" -> v.s # ""
    [] OTHER -> TRUE

\* evalInProcess(tree, process): the representation, or the answer of the
\* task when it is falsy.
evalInProcess(sh, m, tree) ==
  LET r == executeTask(m, TaskEvalAst(sh, tree, TempName))
  IN  IF r.raised \/ ~Truthy(r.res)
      THEN [sh |-> r.sh, bs |-> r.res, strrep |-> NoneV, raised |-> r.raised]
      ELSE LET g == getRepresentation(r.sh, m, TempName)
           IN  [sh |-> g.sh, bs |-> g.res, strrep |-> NoneV, raised |-> g.raised]

\* getTreeResultInProcess(process, **kwargs)
getTreeResultInProcess(sh, m, tree) ==
  LET r == executeTask(m, TaskGetTreeResult(sh, tree, TempName))
  IN  IF r.raised THEN [sh |-> r.sh, bs |-> r.res, strrep |-> NoneV, raised |-> TRUE]
      ELSE IF r.res = NoneV
      THEN [sh |-> r.sh, bs |-> NoneV, strrep |-> r.res, raised |-> FALSE]
      ELSE LET g == getRepresentation(r.sh, m, TempName)
           IN  [sh |-> g.sh, bs |-> g.res, strrep |-> r.res, raised |-> g.raised]

\* What the caller of getObjectAfterExpressionInProcess gets: the pair, or
\* the exception in place of it.
Pair(r) ==
  IF r.raised THEN [res |-> RaisedV(r.bs.s), bs |-> NoneV]
  ELSE [res |-> r.strrep, bs |-> r.bs]

\* run_single_process(pec, code, mode): the shell of the new process, the
\* error of the run of code, and whether the call raised.
run_single_process(m, pec, code) ==
  IF m = "stub"
  THEN \* StubShell.__init__ runs a non-empty init_code outside run_code
       LET init == Exec(pec, EmptyNs)
           r == run_code([NewShell EXCEPT !.user_ns = init.ns], code)
       IN  IF init.raised
           THEN [sh |-> NewShell, error |-> StrV(init.msg), raised |-> TRUE]
           ELSE [sh |-> r.sh, error |-> r.error, raised |-> r.raised]
  ELSE LET r1 == executeTask(m, TaskCaptureOutput(NewShell, pec))
           r2 == executeTask(m, TaskCaptureOutput(r1.sh, code))
       IN  \* a backend-error list does not unpack into output and error
           [sh |-> r2.sh, error |-> r2.res,
            raised |-> r2.res.t = "backend-error"]

\* --------------------------------------------------------------- inputs
MaxCtx == 2
MaxSetUps == 2
MaxBreakDowns == 2

EnvNames == {"x", "y"}
EnvValues == {IntV(5), Undefined}
ManagerKinds ==
  {Ctx(b, "") : b \in {"ok", "expr_raises", "enter_raises", "unpack_fails",
                       "exit_raises", "exit_base"}}
  \cup {Ctx("ok", "y")}
ContextLists ==
  UNION {[1..n -> ManagerKinds] : n \in 0..MaxCtx}
RunTreeTasks ==
  [extra_env : {EmptyNs, [n \in {"x"} |-> IntV(5)]},
   context_vals : {EmptyNs},
   pre_code : {<<>>, <<Raise>>},
   tree : {<<>>, <<Raise>>} \cup {<<Assign("x", Const(v))>> : v \in EnvValues},
   name : {"x"},
   tempname : {TempName}]

\* last: the process, the operation and its arguments (name, and task for
\* TaskRunTreeStoreEnv), the value returned (res) and, for a wrapper that
\* returns a pair, the byte stream (bs).
NoTask ==
  [extra_env |-> EmptyNs, context_vals |-> EmptyNs, pre_code |-> <<>>,
   tree |-> <<>>, name |-> "", tempname |-> ""]
NoLast ==
  [p |-> "", op |-> "none", name |-> "", task |-> NoTask, res |-> NoneV,
   bs |-> NoneV]
Last(p, op, name, res) ==
  [p |-> p, op |-> op, name |-> name, task |-> NoTask, res |-> res,
   bs |-> NoneV]
NoScopes == [gen |-> 0, entered |-> <<>>, exited |-> <<>>, downs |-> 0]

\* What the caller gets from process.executeTask(task).
Got(r) == IF r.raised THEN RaisedV(r.res.s) ELSE r.res

\* ------------------------------------------------- SpecEnv: the actions
Sh(p) == shells[ShellOf(p)]
Running == mode \in {"stub", "simple"}

\* run_exercise(pec, sol_code, stu_code, mode=m): the solution's process,
\* then the student's.
RunExercise(m, pec, sol_code, stu_code) ==
  /\ mode = "none"
  /\ LET rs == run_single_process(m, pec, sol_code)
         rt == run_single_process(m, pec, stu_code)
     IN  IF rs.raised \/ rt.raised
         THEN /\ mode' = "raised"
              /\ UNCHANGED <<shells, stu_error>>
         ELSE /\ mode' = m
              /\ shells' = [[shells EXCEPT ![ShellOf("sol")] = rs.sh]
                              EXCEPT ![ShellOf("stu")] = rt.sh]
              /\ stu_error' = rt.error
  /\ UNCHANGED <<scopes, last, wvars>>
  /\ UNCHANGED svars

\* The caller of process p gets r from executeTask: the shell is as the
\* task left it.
Apply(p, op, name, r) ==
  /\ shells' = [shells EXCEPT ![ShellOf(p)] = r.sh]
  /\ last' = Last(p, op, name, Got(r))

CaptureOutput(p, code) ==
  /\ Running
  /\ Apply(p, "CaptureOutput", "", executeTask(mode, TaskCaptureOutput(Sh(p), code)))
  /\ UNCHANGED <<mode, scopes, stu_error, wvars>>
  /\ UNCHANGED svars

IsDefined(p, name) ==
  /\ Running
  /\ Apply(p, "IsDefined", name, executeTask(mode, TaskIsDefined(Sh(p), name)))
  /\ UNCHANGED <<mode, scopes, stu_error, wvars>>
  /\ UNCHANGED svars

GetOption(p, name) ==
  /\ Running
  /\ Apply(p, "GetOption", name, executeTask(mode, TaskGetOption(Sh(p), name)))
  /\ UNCHANGED <<mode, scopes, stu_error, wvars>>
  /\ UNCHANGED svars

EvalAst(p, tree, name) ==
  /\ Running
  /\ Apply(p, "EvalAst", name, executeTask(mode, TaskEvalAst(Sh(p), tree, name)))
  /\ UNCHANGED <<mode, scopes, stu_error, wvars>>
  /\ UNCHANGED svars

\* isInstanceInProcess(name, klass, process), hasKeyInProcess(name, key,
\* process): arg is the class, the key.
Asked(p, op, name, arg, r) ==
  /\ shells' = [shells EXCEPT ![ShellOf(p)] = r.sh]
  /\ last' = [p |-> p, op |-> op, name |-> name, arg |-> arg, res |-> Got(r)]

isInstanceInProcess(p, name, klass) ==
  /\ Running
  /\ Asked(p, "IsInstance", name, klass,
           executeTask(mode, TaskIsInstance(Sh(p), name, klass)))
  /\ UNCHANGED <<mode, scopes, stu_error, wvars>>
  /\ UNCHANGED svars

hasKeyInProcess(p, name, key) ==
  /\ Running
  /\ Asked(p, "HasKey", name, key,
           executeTask(mode, TaskHasKey(Sh(p), name, key)))
  /\ UNCHANGED <<mode, scopes, stu_error, wvars>>
  /\ UNCHANGED svars

\* getRepresentation(name, process), the state's table being converters.
GetRepresentation(p, converters, name) ==
  /\ Running
  /\ Asked(p, "getRepresentation", name, converters,
           getRepresentationOf(converters, Sh(p), mode, name))
  /\ UNCHANGED <<mode, scopes, stu_error, wvars>>
  /\ UNCHANGED svars

\* evalInProcess(tree, process): what is returned is put in bs.
EvalInProcess(p, tree) ==
  /\ Running
  /\ \E r \in {evalInProcess(Sh(p), mode, tree)} :
       /\ shells' = [shells EXCEPT ![ShellOf(p)] = r.sh]
       /\ last' = [p |-> p, op |-> "evalInProcess", arg |-> tree,
                   res |-> Pair(r).res, bs |-> Pair(r).bs]
  /\ UNCHANGED <<mode, scopes, stu_error, wvars>>
  /\ UNCHANGED svars

GetTreeResultInProcess(p, tree) ==
  /\ Running
  /\ \E r \in {getTreeResultInProcess(Sh(p), mode, tree)} :
       /\ shells' = [shells EXCEPT ![ShellOf(p)] = r.sh]
       /\ last' = [p |-> p, op |-> "getTreeResultInProcess", arg |-> tree,
                   res |-> Pair(r).res, bs |-> Pair(r).bs]
  /\ UNCHANGED <<mode, scopes, stu_error, wvars>>
  /\ UNCHANGED svars

SetUpNewEnv(p, context) ==
  /\ Running
  /\ scopes[ShellOf(p)].gen < MaxSetUps
  /\ LET gen == scopes[ShellOf(p)].gen + 1
         r == executeTask(mode, TaskSetUpNewEnv(Sh(p), context, gen))
     IN  /\ Apply(p, "SetUpNewEnv", "", r)
         /\ scopes' = [scopes EXCEPT ![ShellOf(p)] =
                         [gen |-> gen, entered |-> r.enters, exited |-> <<>>,
                          downs |-> 0]]
  /\ UNCHANGED <<mode, stu_error, wvars>>
  /\ UNCHANGED svars

BreakDownNewEnv(p) ==
  /\ Running
  /\ scopes[ShellOf(p)].downs < MaxBreakDowns
  /\ LET r == executeTask(mode, TaskBreakDownNewEnv(Sh(p)))
     IN  /\ Apply(p, "BreakDownNewEnv", "", r)
         /\ scopes' = [scopes EXCEPT ![ShellOf(p)].exited = @ \o r.exits,
                                     ![ShellOf(p)].downs = @ + 1]
  /\ UNCHANGED <<mode, stu_error, wvars>>
  /\ UNCHANGED svars

RunTreeStoreEnv(p, t) ==
  /\ Running
  /\ LET r == executeTask(mode, TaskRunTreeStoreEnv(Sh(p), t))
     IN  /\ shells' = [shells EXCEPT ![ShellOf(p)] = r.sh]
         /\ last' = [Last(p, "RunTreeStoreEnv", t.name, Got(r)) EXCEPT !.task = t]
  /\ UNCHANGED <<mode, scopes, stu_error, wvars>>
  /\ UNCHANGED svars

GetObjectAfterExpression(p, t) ==
  /\ Running
  /\ \E same \in SameObject(mode, TaskRunTreeStoreEnv(Sh(p), t).res) :
       LET r == getObjectAfterExpressionInProcess(Sh(p), mode, t, same)
       IN  /\ shells' = [shells EXCEPT ![ShellOf(p)] = r.sh]
           /\ last' = [p |-> p, op |-> "getObjectAfterExpression",
                       name |-> t.name, task |-> t,
                       res |-> Pair(r).res, bs |-> Pair(r).bs]
  /\ UNCHANGED <<mode, scopes, stu_error, wvars>>
  /\ UNCHANGED svars

\* ------------------------------------------------ the specifications
CodesOn(names) ==
  {<<>>, <<Raise>>} \cup {<<Assign(n, Const(v))>> : n \in names, v \in EnvValues}
Modes == {"stub", "simple"}

\* SpecIso: the two processes of an exercise, and the tasks that bind and
\* look up a name.
NextIso ==
  \/ \E m \in Modes, pec, sol_code, stu_code \in CodesOn({"x"}) :
       RunExercise(m, pec, sol_code, stu_code)
  \/ \E p \in Procs, code \in CodesOn({"x"}) : CaptureOutput(p, code)
  \/ \E p \in Procs : IsDefined(p, "x")
  \/ \E p \in Procs : GetOption(p, "x")
  \/ \E p \in Procs, tree \in {Const(IntV(5)), Name("x")} : EvalAst(p, tree, "x")

\* SpecEnv: one process, every task, set-ups whose managers behave.
EnvContexts == {<<>>, <<Ctx("ok", "y")>>}
EnvTasks ==
  [extra_env : {EmptyNs}, context_vals : {EmptyNs}, pre_code : {<<>>},
   tree : {<<>>, <<Assign("x", Const(IntV(5)))>>}, name : {"x"},
   tempname : {TempName}]
NextEnv ==
  \/ \E m \in Modes, stu_code \in {<<>>, <<Assign("x", Const(Undefined))>>} :
       RunExercise(m, <<>>, <<>>, stu_code)
  \/ \E code \in CodesOn({"x"}) : CaptureOutput("stu", code)
  \/ \E name \in EnvNames : IsDefined("stu", name)
  \/ \E name \in EnvNames : GetOption("stu", name)
  \/ \E tree \in {Const(IntV(5)), Name("x")}, name \in EnvNames :
       EvalAst("stu", tree, name)
  \/ \E context \in EnvContexts : SetUpNewEnv("stu", context)
  \/ BreakDownNewEnv("stu")
  \/ \E t \in EnvTasks : RunTreeStoreEnv("stu", t)

\* SpecScope: one process, set-ups over every list of managers, tear-downs.
NextScope ==
  \/ \E m \in Modes : RunExercise(m, <<>>, <<>>, <<>>)
  \/ \E context \in ContextLists : SetUpNewEnv("stu", context)
  \/ BreakDownNewEnv("stu")

\* SpecTree: one process, the snippets of TaskRunTreeStoreEnv and of its
\* wrapper, at top level and in a nested layer.
NextTree ==
  \/ \E m \in Modes, stu_code \in CodesOn({"x"}) :
       RunExercise(m, <<>>, <<>>, stu_code)
  \/ SetUpNewEnv("stu", <<>>)
  \/ BreakDownNewEnv("stu")
  \/ \E t \in RunTreeTasks : RunTreeStoreEnv("stu", t)
  \/ \E t \in RunTreeTasks : GetObjectAfterExpression("stu", t)


\* SpecPersist: the processes of run_exercise("a = 1", "", "b = a + 1"),
\* then code that binds c, code that raises, and look-ups.
PersistCodes ==
  {<<Assign("c", Const(IntV(5)))>>, <<Assign("c", Plus("b", 1)), Raise>>,
   <<Raise>>}
NextPersist ==
  \/ \E m \in Modes :
       RunExercise(m, <<Assign("a", Const(IntV(1)))>>, <<>>,
                   <<Assign("b", Plus("a", 1))>>)
  \/ \E p \in Procs, code \in PersistCodes : CaptureOutput(p, code)
  \/ \E p \in Procs, name \in {"a", "b", "c"} : IsDefined(p, name)
  \/ \E p \in Procs : EvalAst(p, Name("b"), TempName)

\* SpecKey: processes that bind a dict d and an int n, or not, and the
\* checks of a class and of a key on d, n and a name u that is not bound.
KeyCodes ==
  {<<>>, <<Assign("d", Const(DictV("k")))>>, <<Assign("n", Const(IntV(1)))>>,
   <<Assign("d", Const(IntV(2)))>>}
NextKey ==
  \/ \E m \in Modes, stu_code \in KeyCodes : RunExercise(m, <<>>, <<>>, stu_code)
  \/ \E code \in KeyCodes : CaptureOutput("stu", code)
  \/ \E name \in {"d", "n", "u"}, klass \in {"dict", "int"} :
       isInstanceInProcess("stu", name, klass)
  \/ \E name \in {"d", "n", "u"}, key \in {"k", "z"} :
       hasKeyInProcess("stu", name, key)

\* SpecRep: processes that bind v to an int, a str or a lock; v is staged
\* and its representation asked for, under tables with a converter for
\* int or none.
RepCodes ==
  {<<>>} \cup {<<Assign("v", Const(x))>> : x \in {IntV(5), StrV("s"), LockV}}
RepTables == {Converters} \cup {[c \in {"int"} |-> f] : f \in {ConvStr, ConvRaise}}
NextRep ==
  \/ \E m \in Modes, sol_code \in RepCodes, stu_code \in RepCodes :
       RunExercise(m, <<>>, sol_code, stu_code)
  \/ \E p \in Procs : EvalAst(p, Name("v"), TempName)
  \/ \E p \in Procs, converters \in RepTables :
       GetRepresentation(p, converters, TempName)

\* SpecLearner: a student's code that raises, an Exception or not, as the
\* code of run_single_process and as code run later on the process.
LearnerCodes ==
  { <<Raise>>, <<RaiseOf("SystemExit")>>, <<RaiseOf("KeyboardInterrupt")>>,
    <<Assign("a", Const(IntV(1))), RaiseOf("SystemExit")>>,
    <<Assign("b", Name("zz"))>>, <<Assign("b", Const(IntV(2)))>>,
    <<Assign("c", Const(IntV(3))), RaiseOf("KeyboardInterrupt")>> }
NextLearner ==
  \/ \E m \in Modes, stu_code \in LearnerCodes :
       RunExercise(m, <<>>, <<>>, stu_code)
  \/ \E code \in LearnerCodes : CaptureOutput("stu", code)
  \/ \E name \in {"a", "b", "c"} : IsDefined("stu", name)

\* SpecStage: one process, and the wrappers that stage a value under
\* '_evaluation_object_' and ask for its representation, in any order.
StageTrees == {Const(IntV(7)), Name("x"), Plus("x", 1)}
NextStage ==
  \/ \E m \in Modes, stu_code \in CodesOn({"x"}) :
       RunExercise(m, <<>>, <<>>, stu_code)
  \/ \E tree \in StageTrees : EvalInProcess("stu", tree)
  \/ \E tree \in StageTrees : GetTreeResultInProcess("stu", tree)
  \/ \E t \in RunTreeTasks : GetObjectAfterExpression("stu", t)

\* ====================================================== State.py: Context
\* An argument that may be None.
NoArg == [given |-> FALSE, v |-> EmptyNs]
Arg(v) == [given |-> TRUE, v |-> v]

\* TargetVars.defined_items(): the items of the mapping.
defined_items(context) == [k \in DOMAIN context |-> context[k]]

\* Context.__init__ merging with the previous bindings on top.
ContextPrevOnTop(context, prev) ==
  [context |-> context, prev |-> prev,
   items |-> Update(defined_items(context), prev)]

\* Context(context, prev). A falsy context is replaced by an empty
\* TargetVars and a falsy prev by {}: both are the empty mapping here.
\* items is _items, what __getitem__, __iter__ and __len__ answer from.
Context(context, prev) ==
  [context |-> context, prev |-> prev,
   items |-> Update(prev, defined_items(context))]

\* update_ctx passing on self.prev without the receiver's own layer.
update_ctxPrevOnly(self, new_ctx) == Context(new_ctx, self.prev)

\* Context.update_ctx(new_ctx)
update_ctx(self, new_ctx) ==
  LET upd_prev == Update(self.prev, defined_items(self.context))
  IN  Context(new_ctx, upd_prev)

MaxCtxObjs == 3
CtxKeys == {"a", "b"}
CtxValues == {IntV(1), IntV(2)}
CtxUpdates == UNION {[ks -> CtxValues] : ks \in SUBSET CtxKeys}

\* Context(U): a Context that is derived from no other.
NewContext(U) ==
  /\ ctxs = <<>>
  /\ ctxs' = <<[c |-> Context(U, EmptyNs), parent |-> 0, upd |-> U]>>
  /\ UNCHANGED <<wvars, tvars, evars, stvars, dvars, pvars, rvars>>

\* ctxs[i].update_ctx(U)
UpdateCtx(i, U) ==
  /\ i \in 1..Len(ctxs)
  /\ Len(ctxs) < MaxCtxObjs
  /\ ctxs' = Append(ctxs, [c |-> update_ctx(ctxs[i].c, U), parent |-> i, upd |-> U])
  /\ UNCHANGED <<wvars, tvars, evars, stvars, dvars, pvars, rvars>>

NextCtx ==
  \/ \E U \in CtxUpdates : NewContext(U)
  \/ \E i \in 1..MaxCtxObjs, U \in CtxUpdates : UpdateCtx(i, U)

\* ======================================================== State.py: State
\* A tree position is the number of a node, 0 for None; the root State has
\* the whole trees.
RootTree == 1

\* student_tree_tokens.get_text(node): the source text of the node.
get_text(node) == "text" \o Decimal(node)

\* A message of the trail: {"msg": ..., "kwargs": ...}; kwargs is a mapping.
Msg(msg, kwargs) == [msg |-> msg, kwargs |-> kwargs]

\* The append_message argument: a str, or a dict with msg and kwargs.
StrMessage(x) == [dict |-> FALSE, msg |-> x, kwargs |-> EmptyNs]
DictMessage(msg, kwargs) == [dict |-> TRUE, msg |-> msg, kwargs |-> kwargs]

\* to_child starting the trail of the result anew.
new_messagesOnly(self, append_message) ==
  <<Msg(append_message.msg, append_message.kwargs)>>

\* Lines 209-212 of to_child: a str is wrapped, and the trail is copied
\* with the message last.
new_messages(self, append_message) ==
  LET m == IF ~append_message.dict
           THEN Msg(append_message.msg, EmptyNs)
           ELSE Msg(append_message.msg, append_message.kwargs)
  IN  self.messages \o <<m>>

\* to_child handing its own parent link on to the child.
child_parentOfReceiver(self, i) == self.parent_state

\* Line 247 of to_child: parent_state=self; i is the place of self in states.
child_parent(self, i) == i

\* State.__init__ of the root: State(student_code=..., student_process=...,
\* ...) with no contexts, highlight or messages. descents is no attribute:
\* it counts the descents that led to the State.
RootState ==
  [student_tree |-> RootTree, solution_tree |-> RootTree,
   student_code |-> get_text(RootTree), solution_code |-> get_text(RootTree),
   student_context |-> Context(EmptyNs, EmptyNs),
   solution_context |-> Context(EmptyNs, EmptyNs),
   student_env |-> Context(EmptyNs, EmptyNs),
   solution_env |-> Context(EmptyNs, EmptyNs),
   student_process |-> "stu", solution_process |-> "sol",
   highlight |-> 0, highlighting_disabled |-> "None",
   messages |-> <<>>, parent_state |-> 0, klass |-> "State", descents |-> 0]

\* self.ctx.update_ctx(arg) if arg is not None else self.ctx
new_ctx(ctx, arg) == IF arg.given THEN update_ctx(ctx, arg.v) ELSE ctx

\* State.to_child(...) of the State at place i of states.
to_child(self, i, a) ==
  LET solution_context == new_ctx(self.solution_context, a.solution_context)
      student_context == new_ctx(self.student_context, a.student_context)
      solution_env == new_ctx(self.solution_env, a.solution_env)
      student_env == new_ctx(self.student_env, a.student_env)
      highlighting_disabled ==
        IF a.highlighting_disabled = "None" THEN self.highlighting_disabled
        ELSE a.highlighting_disabled
      messages == new_messages(self, a.append_message)
  IN  IF ~(a.solution_subtree # 0 /\ a.student_subtree # 0)
      THEN \* _update: copy(self), then the seven attributes are set
           [self EXCEPT !.student_context = student_context,
                        !.solution_context = solution_context,
                        !.student_env = student_env,
                        !.solution_env = solution_env,
                        !.highlight = a.highlight,
                        !.highlighting_disabled = highlighting_disabled,
                        !.messages = messages]
      ELSE \* klass(...): State.__init__ with parent_state given
           [student_tree |-> a.student_subtree,
            solution_tree |-> a.solution_subtree,
            student_code |-> get_text(a.student_subtree),
            solution_code |-> get_text(a.solution_subtree),
            student_context |-> student_context,
            solution_context |-> solution_context,
            student_env |-> student_env, solution_env |-> solution_env,
            student_process |-> self.student_process,
            solution_process |-> self.solution_process,
            highlight |-> IF a.highlight = 0 /\ child_parent(self, i) # 0
                          THEN a.student_subtree ELSE a.highlight,
            highlighting_disabled |-> highlighting_disabled,
            messages |-> messages,
            parent_state |-> child_parent(self, i),
            klass |-> IF a.node_name = "" THEN "State" ELSE a.node_name,
            descents |-> self.descents + 1]

MaxStates == 3

\* to_child(): every argument at its default.
DefaultArgs ==
  [student_subtree |-> 0, solution_subtree |-> 0,
   student_context |-> NoArg, solution_context |-> NoArg,
   student_env |-> NoArg, solution_env |-> NoArg,
   highlight |-> 0, highlighting_disabled |-> "None",
   append_message |-> StrMessage(""), node_name |-> ""]
NoToChild == [recv |-> 0, args |-> DefaultArgs, res |-> 0]

\* The calls of to_child on a State at node t: every pair of subtrees (the
\* node below t, or None), with either a message, or contexts and
\* environments, or a highlight, or a node name.
PlainArgs(t) ==
  {[DefaultArgs EXCEPT !.student_subtree = x, !.solution_subtree = y] :
     x \in {0, t + 1}, y \in {0, t + 1}}
ToChildArgs(t) ==
  UNION {
    {[a EXCEPT !.append_message = m] :
       m \in {StrMessage(""), StrMessage("m"),
              DictMessage("d", [k \in {"a"} |-> IntV(1)])}}
    \cup {[a EXCEPT !.student_context = Arg([k \in {"a"} |-> IntV(1)]),
                    !.solution_env = Arg([k \in {"b"} |-> IntV(2)])],
          [a EXCEPT !.highlight = t, !.highlighting_disabled = "True"],
          [a EXCEPT !.node_name = "if_else"]}
    : a \in PlainArgs(t)}
AllToChildArgs == UNION {ToChildArgs(t) : t \in 1..MaxStates}

\* State(...): the root State.
Root ==
  /\ states = <<>>
  /\ states' = <<RootState>>
  /\ UNCHANGED <<slast, wvars, tvars, evars, ctxvars, dvars, pvars, rvars>>

\* states[i].to_child(**a)
ToChild(i, a) ==
  /\ i \in 1..Len(states)
  /\ Len(states) < MaxStates
  /\ a \in ToChildArgs(states[i].student_tree)
  /\ states' = Append(states, to_child(states[i], i, a))
  /\ slast' = [recv |-> i, args |-> a, res |-> Len(states) + 1]
  /\ UNCHANGED <<wvars, tvars, evars, ctxvars, dvars, pvars, rvars>>

NextState ==
  \/ Root
  \/ \E i \in 1..MaxStates, a \in AllToChildArgs : ToChild(i, a)

\* =================================================== State.py: Dispatcher
MaxTrees == 1
MaxVisits == 2

\* The trees: the pre-exercise tree, and the trees of the exercise.
PreTree == 0
Trees == 0..MaxTrees

\* hash(tree): the default hash of an object, one per live object.
Hash(tree) == 1000 + 16 * tree

\* The names a tree imports: what a visit adds to the visitor's mappings.
Imports(tree) ==
  IF tree = PreTree THEN {"np"} ELSE IF tree = 1 THEN {"pd"} ELSE {}

Parsers == {"FunctionParser", "ObjectAccessParser", "IfParser"}

\* The getters of the Dispatcher: the parser and the attribute of each.
\* function_calls, object_accesses and if_elses are entries of parser_dict.
Getters ==
  {[name |-> "function_calls", Parser |-> "FunctionParser", ext_attr |-> "out"],
   [name |-> "object_accesses", Parser |-> "ObjectAccessParser", ext_attr |-> "out"],
   [name |-> "if_elses", Parser |-> "IfParser", ext_attr |-> "out"],
   [name |-> "oa_mappings", Parser |-> "ObjectAccessParser", ext_attr |-> "mappings"],
   [name |-> "mappings", Parser |-> "FunctionParser", ext_attr |-> "mappings"]}

\* p = Parser(); p.mappings = seed (when seeded); p.visit(tree): the
\* mappings are the seed and the imports of the tree, and out is found
\* with the mappings known.
Visit(Parser, tree, seeded, seed) ==
  LET mappings == (IF seeded THEN seed ELSE {}) \cup Imports(tree)
  IN  [Parser |-> Parser, tree |-> tree, mappings |-> mappings,
       out |-> [tree |-> tree, resolved |-> mappings]]

\* getattr(p, ext_attr)
getattr(p, ext_attr) ==
  IF ext_attr = "mappings"
  THEN [attr |-> "mappings", tree |-> p.tree, names |-> p.mappings]
  ELSE [attr |-> "out", tree |-> p.tree, names |-> p.out.resolved]

\* Parser.__name__ + str(hash(tree))
cache_key(Parser, tree) == Parser \o Decimal(Hash(tree))

\* A cache that never has the key.
cache_hitNever(cache, key) == FALSE

\* self._parser_cache.get(cache_key) is truthy: a parser object is.
cache_hit(cache, key) == key \in DOMAIN cache

\* Dispatcher._getx(Parser, ext_attr, tree): the answer, the cache after
\* the call, and whether a visitor was run.
getx(cache, pem, Parser, ext_attr, tree) ==
  LET key == cache_key(Parser, tree)
  IN  IF cache_hit(cache, key)
      THEN [res |-> getattr(cache[key], ext_attr), cache |-> cache, ran |-> FALSE]
      ELSE LET seeded == /\ ext_attr # "mappings"
                         /\ Parser \in {"FunctionParser", "ObjectAccessParser"}
               q == Visit(Parser, tree, seeded, pem)
           IN  [res |-> getattr(q, ext_attr),
                cache |-> [k \in DOMAIN cache \cup {key} |->
                             IF k = key THEN q ELSE cache[k]],
                ran |-> TRUE]

NoVisits == [P \in Parsers, t \in Trees |-> 0]
NoRequest ==
  [name |-> "", tree |-> 0, res |-> [attr |-> "", tree |-> 0, names |-> {}]]
NoMappings == [made |-> FALSE, names |-> {}]

\* Dispatcher(pre_exercise_tree)
NewDispatcher ==
  /\ ~pre_exercise_mappings.made
  /\ LET r == getx(<<>>, {}, "FunctionParser", "mappings", PreTree)
     IN  /\ parser_cache' = r.cache
         /\ pre_exercise_mappings' = [made |-> TRUE, names |-> r.res.names]
         /\ visits' = [visits EXCEPT !["FunctionParser", PreTree] = @ + 1]
  /\ UNCHANGED <<dlast, wvars, tvars, evars, ctxvars, stvars, pvars, rvars>>

\* dispatcher(g.name, tree)
Request(g, tree) ==
  /\ pre_exercise_mappings.made
  /\ visits[g.Parser, tree] < MaxVisits
  /\ LET r == getx(parser_cache, pre_exercise_mappings.names,
                   g.Parser, g.ext_attr, tree)
     IN  /\ parser_cache' = r.cache
         /\ visits' = [visits EXCEPT ![g.Parser, tree] =
                         IF r.ran THEN @ + 1 ELSE @]
         /\ dlast' = [name |-> g.name, tree |-> tree, res |-> r.res]
  /\ UNCHANGED <<pre_exercise_mappings, wvars, tvars, evars, ctxvars, stvars, pvars,
                 rvars>>

NextDisp ==
  \/ NewDispatcher
  \/ \E g \in Getters, tree \in Trees : Request(g, tree)

\* ------------------------------------------- State.parse (State.py 291-343)
MaxReports == 3

\* The exception classes a parse can raise, each with its base class.
ExcClasses ==
  {"TabError", "IndentationError", "SyntaxError", "TypeError",
   "KeyboardInterrupt", "Exception", "BaseException"}
Base(cls) ==
  CASE cls = "TabError" -> "IndentationError"
    [] cls = "IndentationError" -> "SyntaxError"
    [] cls = "SyntaxError" -> "Exception"
    [] cls = "TypeError" -> "Exception"
    [] cls = "Exception" -> "BaseException"
    [] cls = "KeyboardInterrupt" -> "BaseException"
    [] OTHER -> "object"

RECURSIVE IsInstance(_, _)
IsInstance(cls, of) ==
  IF cls = of THEN TRUE
  ELSE IF cls = "object" THEN FALSE
  ELSE IsInstance(Base(cls), of)

NoExc == [cls |-> "None", msg |-> "", filename |-> "", lineno |-> 0]
Exc(cls, msg, lineno) ==
  [cls |-> cls, msg |-> msg, filename |-> "<unknown>", lineno |-> lineno]

\* str(e): a SyntaxError names its file and line after the message.
str(e) ==
  IF IsInstance(e.cls, "SyntaxError")
  THEN e.msg \o " (" \o e.filename \o ", line " \o Decimal(e.lineno) \o ")"
  ELSE e.msg

\* The texts handed to the parser: one that parses, one with an unexpected
\* indent, one mixing tabs and spaces, one with a syntax error, a value
\* that is no text, and one whose parse is interrupted from the keyboard.
Codes == {"ok", "indent", "tabs", "syntax", "nontext", "interrupt"}
NoneNone == [tokens |-> 0, tree |-> 0]

\* Dispatcher.parse(code): asttokens.ASTTokens(code, parse=True)
Dispatcher_parse(code) ==
  CASE code = "ok" -> [exc |-> NoExc, res |-> [tokens |-> 1, tree |-> 1]]
    [] code = "indent" ->
         [exc |-> Exc("IndentationError", "unexpected indent", 1),
          res |-> NoneNone]
    [] code = "tabs" ->
         [exc |-> Exc("TabError",
                      "inconsistent use of tabs and spaces in indentation", 3),
          res |-> NoneNone]
    [] code = "syntax" ->
         [exc |-> Exc("SyntaxError", "invalid syntax", 1), res |-> NoneNone]
    [] code = "nontext" ->
         [exc |-> Exc("TypeError", "expected str", 0), res |-> NoneNone]
    [] OTHER ->
         [exc |-> Exc("KeyboardInterrupt", "", 0), res |-> NoneNone]

Fail(feedback) == [test |-> "Fail", feedback |-> feedback]

\* self.do_test(test): the reporter takes the failure.  The messages are
\* the code's, with ' where the code has a backquote.
do_test(reps, test) == Append(reps, test)

IndentationFeedback(e) ==
  "Your code could not be parsed due to an error in the indentation:<br>'"
    \o str(e) \o ".'"
SyntaxFeedback(e) ==
  "Your code can not be executed due to a syntax error:<br>'"
    \o str(e) \o ".'"
GenericFeedback == "Something went wrong while parsing your code."

\* The except clause of parse_external that takes an exception of a class:
\* the first one, in the order written, that matches.
handlerSyntaxFirst(cls) ==
  IF IsInstance(cls, "SyntaxError") THEN "SyntaxError"
  ELSE IF IsInstance(cls, "IndentationError") THEN "IndentationError"
  ELSE "bare"
handler(cls) ==
  IF IsInstance(cls, "IndentationError") THEN "IndentationError"
  ELSE IF IsInstance(cls, "SyntaxError") THEN "SyntaxError"
  ELSE "bare"

Returned(res, reps) ==
  [returned |-> TRUE, res |-> res, raised |-> "None", reports |-> reps]
Raised(cls, reps) ==
  [returned |-> FALSE, res |-> NoneNone, raised |-> cls, reports |-> reps]

\* self.parse_external(code)
parse_external(reps, code) ==
  LET r == Dispatcher_parse(code)
      e == [r.exc EXCEPT !.filename = "script.py"]
      h == handler(r.exc.cls)
  IN  IF r.exc = NoExc THEN Returned(r.res, reps)
      ELSE IF h = "IndentationError"
      THEN Returned(NoneNone, do_test(reps, Fail(IndentationFeedback(e))))
      ELSE IF h = "SyntaxError"
      THEN Returned(NoneNone, do_test(reps, Fail(SyntaxFeedback(e))))
      ELSE Returned(NoneNone, do_test(reps, Fail(GenericFeedback)))

\* State.parse_internal(code)
parse_internal(reps, code) ==
  LET r == Dispatcher_parse(code)
  IN  IF r.exc = NoExc THEN Returned(r.res, reps)
      ELSE IF IsInstance(r.exc.cls, "Exception")
      THEN Raised("InstructorError", reps)
      ELSE Raised(r.exc.cls, reps)

\* self.parse(text, test)
parse(reps, text, test) ==
  IF test THEN parse_external(reps, text) ELSE parse_internal(reps, text)

NoParse ==
  [text |-> "", test |-> FALSE, returned |-> FALSE, res |-> NoneNone,
   raised |-> "None"]

Parse(text, test) ==
  /\ Len(reports) < MaxReports
  /\ LET r == parse(reports, text, test)
     IN  /\ reports' = r.reports
         /\ plast' = [text |-> text, test |-> test, returned |-> r.returned,
                      res |-> r.res, raised |-> r.raised]
  /\ UNCHANGED <<wvars, tvars, evars, ctxvars, stvars, dvars, rvars>>

NextParse == \E text \in Codes, test \in BOOLEAN : Parse(text, test)

\* ------------------------------------ run_exercise, run (local.py 129-272)
\* The directories of the file system; the caller starts in one of them.
ExistingDirs == {"/home", "/home/solution", "/home/repl", "/tmp"}
CallerDirs == {"/home", "/home/repl"}

\* The one element of a set of one: a value worked out once, then used.
Only(S) == CHOOSE x \in S : TRUE

\* Path(a, b)
Path(a, b) == IF b = "" THEN a ELSE a \o "/" \o b

\* ChDir.__exit__ leaving the directory as the body left it.
ChDir_exitStay(old_dir, now) == now

\* ChDir.__exit__: os.chdir(self.old_dir)
ChDir_exit(old_dir, now) == old_dir

\* A program: its statements and the directory it changes to with
\* os.chdir before them, "" for none.
Programs ==
  {[code |-> <<>>, cd |-> ""], [code |-> <<Raise>>, cd |-> ""],
   [code |-> <<>>, cd |-> "/tmp"]}
\* The mode of a call, and the process whose start fails, if any.
RunCases ==
  {[m |-> "stub", fails |-> "none"], [m |-> "simple", fails |-> "none"],
   [m |-> "simple", fails |-> "sol"], [m |-> "simple", fails |-> "stu"],
   [m |-> "other", fails |-> "none"]}

\* run_single_process(pec, code, mode=m) called in directory dir. start_ok:
\* process.start() works. seen is the directory the program started in,
\* "" when it was not run; cwd the caller's directory after the call: a
\* program run by StubProcess changes the directory of the caller, a
\* program in another process does not.
run_single_process_in(dir, m, pec, prog, start_ok) ==
  IF m \notin {"stub", "simple"}
  THEN [sh |-> NewShell, error |-> NoneV, raised |-> "ValueError",
        seen |-> "", cwd |-> dir]
  ELSE IF m = "simple" /\ ~start_ok
  THEN [sh |-> NewShell, error |-> NoneV, raised |-> "OSError",
        seen |-> "", cwd |-> dir]
  ELSE Only({IF r.raised
             THEN [sh |-> r.sh, error |-> r.error, raised |-> "Exception",
                   seen |-> "", cwd |-> dir]
             ELSE [sh |-> r.sh, error |-> r.error, raised |-> "None",
                   seen |-> dir,
                   cwd |-> IF m = "stub" /\ prog.cd # "" THEN prog.cd
                           ELSE dir] :
             r \in {run_single_process(m, pec, prog.code)}})

\* with ChDir(wd or os.getcwd()): run_single_process(pec, code, mode=m)
\* wd is "" for None; dirs are the directories there are.
with_ChDir(dirs, now, wd, m, pec, prog, start_ok) ==
  LET old_dir == now
      new_dir == IF wd = "" THEN now ELSE wd
  IN  IF new_dir \notin dirs
      THEN [sh |-> NewShell, error |-> NoneV, raised |-> "FileNotFoundError",
            seen |-> "", cwd |-> now]
      ELSE Only({[r EXCEPT !.cwd = ChDir_exit(old_dir, r.cwd)] :
                   r \in {run_single_process_in(new_dir, m, pec, prog,
                                                start_ok)}})

\* run_exercise(pec, sol_code, stu_code, sol_wd, stu_wd, mode=m): the
\* output and the error of the solution's run are dropped.
\* s and t are what the two with blocks gave, each worked out once.
run_exercise(dirs, now, m, pec, sol, stu, sol_wd, stu_wd, fails) ==
  LET ended(s, t) ==
        IF s.raised # "None"
        THEN [returned |-> FALSE, raised |-> s.raised, cwd |-> s.cwd,
              sol_seen |-> s.seen, stu_seen |-> "", sol_sh |-> s.sh,
              stu_sh |-> NewShell, sol_error |-> s.error, error |-> NoneV]
        ELSE [returned |-> t.raised = "None", raised |-> t.raised,
              cwd |-> t.cwd, sol_seen |-> s.seen, stu_seen |-> t.seen,
              sol_sh |-> s.sh, stu_sh |-> t.sh, sol_error |-> s.error,
              error |-> IF t.raised = "None" THEN t.error ELSE NoneV]
  IN  Only(UNION {{ended(s, t) :
                     t \in {with_ChDir(dirs, s.cwd, stu_wd, m, pec, stu,
                                       fails # "stu")}} :
                   s \in {with_ChDir(dirs, now, sol_wd, m, pec, sol,
                                     fails # "sol")}})

\* rlast: the last call of run_exercise or run: its arguments, the
\* caller's directory before and after it, and how it ended.
NoRun ==
  [op |-> "none", m |-> "", sol |-> [code |-> <<>>, cd |-> ""],
   stu |-> [code |-> <<>>, cd |-> ""], sol_wd |-> "", stu_wd |-> "",
   before |-> "", after |-> "", returned |-> FALSE, raised |-> "None",
   sol_seen |-> "", stu_seen |-> "", sol_error |-> NoneV, error |-> NoneV]

Ended(op, m, sol, stu, sol_wd, stu_wd, r, raised) ==
  /\ cwd' = r.cwd
  /\ rlast' = [op |-> op, m |-> m, sol |-> sol, stu |-> stu,
               sol_wd |-> sol_wd, stu_wd |-> stu_wd, before |-> cwd,
               after |-> r.cwd, returned |-> raised = "None",
               raised |-> raised, sol_seen |-> r.sol_seen,
               stu_seen |-> r.stu_seen, sol_error |-> r.sol_error,
               error |-> r.error]
  /\ IF raised = "None"
     THEN /\ mode' = m
          /\ shells' = [[shells EXCEPT ![ShellOf("sol")] = r.sol_sh]
                          EXCEPT ![ShellOf("stu")] = r.stu_sh]
          /\ stu_error' = r.error
     ELSE /\ mode' = "raised"
          /\ UNCHANGED <<shells, stu_error>>
  /\ UNCHANGED <<scopes, last, wvars, tvars, ctxvars, stvars, dvars, pvars>>

\* The caller moves to another directory between calls.
CallerChdir(d) ==
  /\ cwd # d
  /\ cwd' = d
  /\ UNCHANGED <<rlast, wvars, tvars, evars, ctxvars, stvars, dvars, pvars>>

\* run_exercise("", sol_code, stu_code, sol_wd, stu_wd, mode=m)
RunExerciseIn(m, sol, stu, sol_wd, stu_wd, fails) ==
  \E r \in {run_exercise(ExistingDirs, cwd, m, <<>>, sol, stu, sol_wd, stu_wd,
                          fails)} :
    Ended("run_exercise", m, sol, stu, sol_wd, stu_wd, r, r.raised)

\* run(state, relative_working_dir, solution_dir): makedirs makes the
\* solution's directory; to_child is called with student_process,
\* solution_process, raw_student_output and reporter, which it does not
\* take.
Run(sol, stu, relative_working_dir, solution_dir) ==
  LET sol_wd == Path(Path(cwd, solution_dir), relative_working_dir)
      stu_wd == Path(cwd, relative_working_dir)
  IN  \E r \in {run_exercise(ExistingDirs \cup {sol_wd}, cwd, "simple", <<>>,
                              sol, stu, sol_wd, stu_wd, "none")} :
        Ended("run", "simple", sol, stu, sol_wd, stu_wd, r,
              IF r.returned THEN "TypeError" ELSE r.raised)

WorkingDirs == {"", "/home/solution", "/missing"}
SolutionDirs == {"", "/home/solution"}
StudentPrograms == {p \in Programs : p.cd = ""}
RelativeDirs == {"", "repl", "sub"}
NextRun ==
  \/ \E d \in CallerDirs : CallerChdir(d)
  \/ \E c \in RunCases, sol \in Programs, stu \in StudentPrograms,
        sol_wd \in SolutionDirs, stu_wd \in WorkingDirs :
       RunExerciseIn(c.m, sol, stu, sol_wd, stu_wd, c.fails)
  \/ \E sol \in Programs, stu \in StudentPrograms,
        relative_working_dir \in RelativeDirs, solution_dir \in {"solution"} :
       Run(sol, stu, relative_working_dir, solution_dir)

\* ------------------------------------------------ kill() (local.py 103-116)
\* klast: the worker of the last kill() call, whether it was alive and
\* registered when the call began, how the call ended ("waiting" while it
\* is blocked in executeTask), the calls so far, and the workers on which
\* a kill() has returned.
MaxKills == 3
NoKill ==
  [w |-> 0, alive |-> FALSE, registered |-> FALSE, again |-> FALSE,
   ended |-> "none", n |-> 0, done |-> {}]

\* kill() on worker w, up to its return or to the executeTask of line 106.
KillCall(w) ==
  /\ cpc = "idle" /\ ~ka.active
  /\ proc[w] # "none"
  /\ klast.n < MaxKills
  /\ KillEntry(w)
  /\ klast' = [w |-> w, alive |-> is_alive(w),
               registered |-> w \in Range(instances),
               again |-> w \in klast.done,
               ended |-> IF is_alive(w) THEN "waiting" ELSE "returned",
               n |-> klast.n + 1,
               done |-> IF is_alive(w) THEN klast.done
                        ELSE klast.done \cup {w}]
  /\ UNCHANGED <<ka, glast, evars, ctxvars, stvars, dvars, pvars, rvars>>

\* kill(), lines 106-112, once the shutdown task is answered.
KillCallResume ==
  /\ cpc = "wait" /\ call.op = "kill"
  /\ result_queue[call.w] # <<>>
  /\ result_queue' = [result_queue EXCEPT ![call.w] = Tail(@)]
  /\ \E still_alive \in {b \in BOOLEAN : b => is_alive(call.w)} :
       /\ proc' = [proc EXCEPT ![call.w] = IF still_alive THEN @ ELSE "exited"]
       /\ KillFinish(call.w, still_alive)
       /\ klast' = [klast EXCEPT
                      !.ended = IF still_alive THEN "raised" ELSE "returned",
                      !.done = IF still_alive THEN @ ELSE @ \cup {call.w}]
  /\ cpc' = "idle"
  /\ call' = NoCall
  /\ UNCHANGED <<task_queue, next_task, nsub, ka, glast, evars, ctxvars,
                 stvars, dvars, pvars, rvars>>

\* SpecKill: workers made, started, killed and killed again.
NextKill ==
  \/ \E w \in Workers : WorkerInit(w)
  \/ \E w \in Workers : Start(w)
  \/ \E w \in Workers : RunIteration(w)
  \/ \E w \in Workers : ProcessExit(w)
  \/ \E w \in Workers : KillCall(w)
  \/ KillCallResume

\* ------------------------------------- get_signature (tasks.py 176-473)
\* A dotted name is the sequence of its parts: "x.m" is <<"x", "m">>, so
\* that '"." in n' is Len(n) > 1, n.split(".") is n and ".".join(n) is n.
\* A runtime object is its type's name and the signature that
\* inspect.signature finds for it ("" when it finds none).
NoSignature == [called |-> FALSE]
NoSig == [from |-> "None", of |-> <<>>]
\* inspect.Signature(manual_sigs[key])
ManualSig(key) == [from |-> "manual", of |-> key]
\* inspect.signature(fun)
RuntimeSig(fun) == [from |-> "runtime", of |-> <<fun.rsig>>]
SigObject(type, rsig) == [type |-> type, rsig |-> rsig]

SigReturn(sig) == [raised |-> FALSE, sig |-> sig, msg |-> ""]
SigRaise(msg) == [raised |-> TRUE, sig |-> NoSig, msg |-> msg]

\* The inner try of get_signature (lines 449-467): the manual table by the
\* name, then by the name with its first part replaced by the type of the
\* object it evaluates to.
manual_signature(name, mapped_name, manual_sigs, env) ==
  IF name \in manual_sigs THEN SigReturn(ManualSig(name))
  ELSE IF Len(mapped_name) > 1
  THEN IF <<Head(name)>> \notin DOMAIN env
       THEN SigRaise("signature error - cannot convert call")
       ELSE LET generic_name == <<env[<<Head(name)>>].type>> \o Tail(name)
            IN  IF generic_name \in manual_sigs
                THEN SigReturn(ManualSig(generic_name))
                ELSE SigRaise("signature error - not in builtins")
  ELSE SigRaise("manual signature not found")

\* get_signature looking at the callable first and at the table after it.
get_signatureRuntimeFirst(name, mapped_name, signature, manual_sigs, env) ==
  IF signature # <<>>
  THEN IF signature \in manual_sigs THEN SigReturn(ManualSig(signature))
       ELSE SigRaise("signature error - specified signature not found")
  ELSE IF mapped_name \notin DOMAIN env THEN SigRaise("was not found")
  ELSE IF env[mapped_name].rsig # "" THEN SigReturn(RuntimeSig(env[mapped_name]))
  ELSE manual_signature(name, mapped_name, manual_sigs, env)

\* get_signature(name, mapped_name, signature, manual_sigs, env); the
\* signature argument is <<>> for None and a key of the table for a str.
get_signature(name, mapped_name, signature, manual_sigs, env) ==
  IF signature # <<>>
  THEN IF signature \in manual_sigs THEN SigReturn(ManualSig(signature))
       ELSE SigRaise("signature error - specified signature not found")
  ELSE IF mapped_name \notin DOMAIN env THEN SigRaise("was not found")
  ELSE LET fun == env[mapped_name]
           man == manual_signature(name, mapped_name, manual_sigs, env)
       IN  IF ~man.raised THEN man
           ELSE IF fun.rsig # "" THEN SigReturn(RuntimeSig(fun))
           ELSE SigRaise("signature error - cannot determine signature")

\* TaskGetSignature.__call__, env being get_env(shell.user_ns): any
\* exception of get_signature becomes None.
TaskGetSignature(name, mapped_name, signature, manual_sigs, env) ==
  LET r == get_signature(name, mapped_name, signature, manual_sigs, env)
  IN  IF r.raised THEN NoSig ELSE r.sig

\* The calls: a function imported from a module, and a method of x.
SigCalls ==
  { [name |-> <<"mod", "f">>, mapped_name |-> <<"f">>],
    [name |-> <<"x", "m">>, mapped_name |-> <<"x", "m">>] }
SigKeys == {<<"mod", "f">>, <<"x", "m">>, <<"T", "m">>}
\* The environments: f bound or not, x (of type T) bound or not and with
\* a method m or not; f and x.m introspectable or not.
SigEnvs ==
  { e \in UNION { [S -> {SigObject("function", "rt"), SigObject("function", ""),
                        SigObject("T", "")}] :
                  S \in SUBSET {<<"f">>, <<"x">>, <<"x", "m">>} } :
      /\ (<<"x", "m">> \in DOMAIN e) => (<<"x">> \in DOMAIN e)
      /\ \A k \in DOMAIN e : (e[k].type = "T") <=> (k = <<"x">>) }

GetSignature(c, signature, manual_sigs, env) ==
  /\ glast' = [called |-> TRUE, name |-> c.name, mapped_name |-> c.mapped_name,
               signature |-> signature, manual_sigs |-> manual_sigs,
               env |-> env,
               res |-> TaskGetSignature(c.name, c.mapped_name, signature,
                                        manual_sigs, env)]
  /\ UNCHANGED <<wvars, klast, evars, ctxvars, stvars, dvars, pvars, rvars>>

\* SpecSig: signatures asked for, one call after the other.
NextSig ==
  \E c \in SigCalls, signature \in {<<>>, <<"T", "m">>},
     manual_sigs \in SUBSET SigKeys, env \in SigEnvs :
    GetSignature(c, signature, manual_sigs, env)

\* ------------------------------------------------------------------ Spec
Init ==
  /\ instances = <<>>
  /\ proc = [w \in Workers |-> "none"]
  /\ task_queue = [w \in Workers |-> <<>>]
  /\ result_queue = [w \in Workers |-> <<>>]
  /\ next_task = [w \in Workers |-> Unbound]
  /\ nsub = 0
  /\ cpc = "idle"
  /\ call = NoCall
  /\ ka = NoKillAll
  /\ mode = "none"
  /\ shells = [p \in Procs |-> NewShell]
  /\ scopes = [p \in Procs |-> NoScopes]
  /\ last = NoLast
  /\ stu_error = NoneV
  /\ ctxs = <<>>
  /\ states = <<>>
  /\ slast = NoToChild
  /\ parser_cache = <<>>
  /\ pre_exercise_mappings = NoMappings
  /\ visits = NoVisits
  /\ dlast = NoRequest
  /\ reports = <<>>
  /\ plast = NoParse
  /\ cwd = "/home"
  /\ rlast = NoRun
  /\ klast = NoKill
  /\ glast = NoSignature

Next ==
  \/ \E w \in Workers : WorkerInit(w)
  \/ \E w \in Workers : Start(w)
  \/ \E w \in Workers, kind \in TaskKinds : ExecuteTask(w, kind)
  \/ ExecuteTaskReturn
  \/ \E w \in Workers : Kill(w)
  \/ KillResume
  \/ KillAll
  \/ KillAllStep
  \/ KillAllReturn
  \/ \E w \in Workers : RunIteration(w)
  \/ \E w \in Workers : ProcessExit(w)

Spec == Init /\ [][Next]_vars

SpecIso == Init /\ [][NextIso]_vars
SpecEnv == Init /\ [][NextEnv]_vars
SpecScope == Init /\ [][NextScope]_vars
SpecTree == Init /\ [][NextTree]_vars
SpecCtx == Init /\ [][NextCtx]_vars
SpecState == Init /\ [][NextState]_vars
SpecDisp == Init /\ [][NextDisp]_vars
SpecParse == Init /\ [][NextParse]_vars
SpecRun == Init /\ [][NextRun]_vars
SpecKill == Init /\ [][NextKill]_vars
SpecPersist == Init /\ [][NextPersist]_vars
SpecSig == Init /\ [][NextSig]_vars
SpecKey == Init /\ [][NextKey]_vars
SpecRep == Init /\ [][NextRep]_vars
SpecLearner == Init /\ [][NextLearner]_vars
SpecStage == Init /\ [][NextStage]_vars

\* ---------------------------------------------------------------- claims
Taken(w) == Len(task_queue'[w]) < Len(task_queue[w])
Waiting(w) == cpc = "wait" /\ call.w = w
Answered(w) == Waiting(w) /\ result_queue[w] # <<>>
BackendError(id, msg) ==
  ListAnswer(id, <<[type |-> "backend-error", payload |-> msg]>>)

\* C1 (parts): the only result a waiting caller can read is the answer to
\* the task its call submitted; no result is queued while no call is in
\* progress; the worker pushes one result for each task it takes, and none
\* otherwise.
C1_AnswerMatches ==
  \A w \in Workers :
    Answered(w) =>
      /\ Len(result_queue[w]) = 1
      /\ Head(result_queue[w]).of = call.id
      /\ call.kind \in {"ok", "kill"} =>
           Head(result_queue[w]) = TaskCall(Task(call.kind, call.id))
C1_IdleEmpty ==
  cpc = "idle" => \A w \in Workers : result_queue[w] = <<>>
C1_OnePerTask ==
  \A w \in Workers :
    IF Taken(w)
    THEN /\ task_queue'[w] = Tail(task_queue[w])
         /\ Len(result_queue'[w]) = Len(result_queue[w]) + 1
         /\ result_queue'[w][Len(result_queue'[w])].of = Head(task_queue[w]).id
    ELSE Len(result_queue'[w]) <= Len(result_queue[w])

\* C1: for a single caller, every executeTask call returns the result of
\* exactly the task that call submitted: the worker pushes exactly one
\* result per task it takes, in submission order, and the result queue is
\* empty whenever no executeTask call is in progress.
C1_RequestResponse ==
  [](C1_AnswerMatches /\ C1_IdleEmpty) /\ [][C1_OnePerTask]_vars

\* C1 witness: the caller's second task is answered by a worker that has
\* taken no shutdown task.
C1_Witness ==
  \E w \in Workers :
    /\ Answered(w) /\ call.op = "exec" /\ call.id = 2 /\ call.kind = "ok"
    /\ proc[w] = "loop"

\* C2 (parts): a task that raises is answered by a list of one
\* backend-error entry and leaves the worker in its loop; the task taken
\* after it is answered as usual.
C2_ErrorAnswer ==
  \A w \in Workers :
    Answered(w) /\ call.kind = "raise" =>
      /\ Head(result_queue[w]) = BackendError(call.id, "task")
      /\ proc[w] = "loop"
C2_NextAnswered ==
  \A w \in Workers :
    next_task[w] = "raise" /\ Taken(w) /\ Head(task_queue[w]).kind = "ok" =>
      /\ result_queue'[w] = <<ValueAnswer(Head(task_queue[w]).id, "value")>>
      /\ proc'[w] = "loop"

\* C2: when the execution of a task raises inside run(), the caller of
\* executeTask receives a list holding one entry {type: 'backend-error',
\* payload: message}; the worker loop keeps running and answers the next
\* submitted task normally.
C2_BackendError ==
  [](C2_ErrorAnswer) /\ [][C2_NextAnswered]_vars

\* C2 witness: a task raised in the worker and its answer waits for the
\* caller.
C2_Witness ==
  \E w \in Workers :
    Answered(w) /\ call.kind = "raise" /\ next_task[w] = "raise"

\* C3: after kill() finishes, whether it returns or raises, the instance is
\* no longer in the registry.
C3_KillDeregisters ==
  [][\A w \in Workers :
       Waiting(w) /\ call.op = "kill" /\ cpc' = "idle" =>
         w \notin Range(instances')]_vars

KillCompleted(w) == proc[w] = "exited" /\ w \notin Range(instances)

\* The caller is blocked in result_queue.get() of a worker whose loop is not
\* running: nothing is queued and nothing will be.
BlockedForever(w) ==
  Waiting(w) /\ call.op = "exec" /\ result_queue[w] = <<>> /\ proc[w] # "loop"

\* C5: after kill() has completed on a worker, a further executeTask on it
\* never leaves the caller blocked forever waiting on the result queue.
C5_NoHangAfterKill ==
  \A w \in Workers : KillCompleted(w) => ~BlockedForever(w)

\* ------------------------------------------------------- C6 (SpecIso)
Other(p) == Procs \ {p}

\* A task asked of one process leaves the bindings the other sees as they
\* were.
C6_Frame ==
  Running =>
    \A q \in Other(last'.p) :
      get_env(shells'[ShellOf(q)]) = get_env(shells[ShellOf(q)])

\* TaskIsDefined answers from the bindings of the process it was asked of.
C6_IsDefinedOwn ==
  last.op = "IsDefined" =>
    last.res = BoolV(last.name \in DOMAIN get_env(Sh(last.p)))

IsLookup(res, ns, name) ==
  IF name \in DOMAIN ns THEN res = ns[name]
  ELSE res.t \in {"raised", "backend-error"}

\* C7: while the layer user_ns['__env__'] of a process is there (after
\* TaskSetUpNewEnv, before TaskBreakDownNewEnv), every other task leaves
\* the top-level namespace as it was and answers a lookup from the layer;
\* the tear-down brings no name of the layer to the top level.
C7_NestedLayer ==
  [][(Running /\ Sh("stu").has_env /\ last'.op # "SetUpNewEnv") =>
       /\ shells'[ShellOf("stu")].user_ns = Sh("stu").user_ns
       /\ last'.op = "GetOption" =>
            IsLookup(last'.res, Sh("stu").env, last'.name)
       /\ last'.op = "IsDefined" =>
            last'.res = BoolV(last'.name \in DOMAIN Sh("stu").env)]_vars

\* ------------------------------------------------------ C8 (SpecScope)
\* The last manager of a list whose __exit__ raises, as the exception it
\* raised; False when none raises.
RECURSIVE LastExitError(_, _)
LastExitError(objs, i) ==
  IF i = 0 THEN BoolV(FALSE)
  ELSE IF objs[i].beh \in {"exit_raises", "exit_base"}
  THEN ExcV("__exit__", objs[i].pos)
  ELSE LastExitError(objs, i - 1)

\* C8: the first TaskBreakDownNewEnv after a set-up calls __exit__ once on
\* every manager that set-up entered, in the order of entry, whether or not
\* an exit raises; it returns the last exception an exit raised, False when
\* none did, and raises nothing to the caller.
C8_TearDown ==
  [][(Running /\ last'.op = "BreakDownNewEnv"
        /\ scopes[ShellOf("stu")].gen > 0 /\ scopes[ShellOf("stu")].downs = 0) =>
       /\ scopes'[ShellOf("stu")].exited = scopes[ShellOf("stu")].entered
       /\ last'.res =
            LastExitError(scopes[ShellOf("stu")].entered,
                          Len(scopes[ShellOf("stu")].entered))
       /\ last'.res.t \notin {"raised", "backend-error"}]_vars

\* ------------------------------------------------- C9, C10 (SpecTree)
HasRaise(code) == \E i \in 1..Len(code) : code[i].op = "raise"
Assigns(code, name) ==
  \E i \in 1..Len(code) : code[i].op = "assign" /\ code[i].name = name
SnippetRaises(t) == HasRaise(t.pre_code) \/ HasRaise(t.tree)
TargetBound(env, t) ==
  \/ t.name \in DOMAIN env
  \/ t.name \in DOMAIN t.extra_env
  \/ t.name \in DOMAIN t.context_vals
  \/ Assigns(t.pre_code, t.name)
  \/ Assigns(t.tree, t.name)

\* The value the target has when the pre-code and the snippet have run: the
\* last assignment to it, else what the copied environment holds.
RECURSIVE LastAssigned(_, _, _, _)
LastAssigned(code, i, name, dflt) ==
  IF i = 0 THEN dflt
  ELSE IF code[i].op = "assign" /\ code[i].name = name /\ code[i].e.k = "const"
  THEN code[i].e.v
  ELSE LastAssigned(code, i - 1, name, dflt)
TargetValue(env, t) ==
  LET copied == IF t.name \in DOMAIN t.context_vals THEN t.context_vals[t.name]
                ELSE IF t.name \in DOMAIN t.extra_env THEN t.extra_env[t.name]
                ELSE IF t.name \in DOMAIN env THEN env[t.name]
                ELSE NoneV
      pre == LastAssigned(t.pre_code, Len(t.pre_code), t.name, copied)
  IN  LastAssigned(t.tree, Len(t.tree), t.name, pre)

\* C9: TaskRunTreeStoreEnv returns None when the pre-code or the snippet
\* raises, the string 'undefined' when they run and the target name is not
\* bound in the copied environment, and otherwise a string: '5' when the
\* snippet binds the target to 5.
C9_Result ==
  [][(Running /\ last'.op = "RunTreeStoreEnv") =>
       LET t == last'.task
           env == get_env(Sh("stu"))
       IN  /\ SnippetRaises(t) => last'.res = NoneV
           /\ (~SnippetRaises(t) /\ ~TargetBound(env, t)) => last'.res = Undefined
           /\ (~SnippetRaises(t) /\ TargetBound(env, t)) =>
                last'.res = StrV(Str(TargetValue(env, t)))
           /\ (~SnippetRaises(t) /\ t.tree = <<Assign(t.name, Const(IntV(5)))>>)
                => last'.res = StrV("5")]_vars

\* The three answers have been seen; this one is '5' for a snippet that
\* binds the target to 5.
C9_Witness ==
  /\ last.op = "RunTreeStoreEnv"
  /\ last.task.tree = <<Assign("x", Const(IntV(5)))>>
  /\ last.task.pre_code = <<>>
  /\ last.res = StrV("5")

\* The task with the same target whose snippet binds nothing.
Unbinding(t) ==
  [t EXCEPT !.tree = <<>>, !.pre_code = <<>>, !.extra_env = EmptyNs,
            !.context_vals = EmptyNs]

\* C10: when a snippet binds a target name that was not bound before, the
\* result of TaskRunTreeStoreEnv and the pair of
\* getObjectAfterExpressionInProcess differ from what the same call gives
\* for a snippet that binds nothing.
C10_Distinguishable ==
  [][(/\ Running
      /\ last'.op \in {"RunTreeStoreEnv", "getObjectAfterExpression"}
      /\ ~SnippetRaises(last'.task)
      /\ Assigns(last'.task.tree, last'.task.name)
      /\ last'.task.name \notin DOMAIN get_env(Sh("stu"))) =>
       LET t0 == Unbinding(last'.task)
       IN  /\ last'.op = "RunTreeStoreEnv" =>
                last'.res # Got(executeTask(mode, TaskRunTreeStoreEnv(Sh("stu"), t0)))
           /\ last'.op = "getObjectAfterExpression" =>
                \A same \in SameObject(mode, Undefined) :
                  [res |-> last'.res, bs |-> last'.bs] #
                    Pair(getObjectAfterExpressionInProcess(Sh("stu"), mode, t0, same))]_vars

\* ----------------------------------------------------- C11, C12 (SpecCtx)
Derived == {n \in 1..Len(ctxs) : ctxs[n].parent > 0}

\* C11: for a Context C and an update U, C.update_ctx(U) has the keys of C
\* and the keys of U, U's value for each key of U, and C's value for each
\* key of C only.
C11_UpdateCtx ==
  \A n \in Derived :
    LET C == ctxs[ctxs[n].parent].c.items
        U == ctxs[n].upd
        R == ctxs[n].c.items
    IN  /\ DOMAIN R = DOMAIN C \cup DOMAIN U
        /\ \A k \in DOMAIN U : R[k] = U[k]
        /\ \A k \in DOMAIN C \ DOMAIN U : R[k] = C[k]

\* An update has replaced the receiver's value of a key, and kept a key of
\* the receiver only.
C11_Witness ==
  \E n \in Derived :
    LET C == ctxs[ctxs[n].parent].c.items
        U == ctxs[n].upd
    IN  /\ "a" \in DOMAIN C /\ "a" \in DOMAIN U /\ C["a"] # U["a"]
        /\ "b" \in DOMAIN C \ DOMAIN U
        /\ ctxs[n].c.items["a"] = U["a"]

\* The layers from a Context up to the one derived from no other that bind k.
RECURSIVE NearestLayer(_, _)
NearestLayer(n, k) ==
  IF n = 0 THEN 0
  ELSE IF k \in DOMAIN ctxs[n].upd THEN n
  ELSE NearestLayer(ctxs[n].parent, k)

C12_Nearest ==
  \A n \in 1..Len(ctxs), k \in CtxKeys :
    LET l == NearestLayer(n, k)
    IN  /\ k \in DOMAIN ctxs[n].c.items <=> l > 0
        /\ l > 0 => ctxs[n].c.items[k] = ctxs[l].upd[k]

C12_Frame ==
  \A n \in 1..Len(ctxs) : n \in 1..Len(ctxs') /\ ctxs'[n] = ctxs[n]

\* C12: deriving children and grandchildren with update_ctx leaves every
\* Context made before as it was, and a lookup in a Context answers with
\* the binding of the nearest layer, from itself up, that binds the name.
C12_Layering == [](C12_Nearest) /\ [][C12_Frame]_vars

\* A grandchild answers "a" from its grandparent's layer and "b" from its
\* own, which hides another value of its parent's.
C12_Witness ==
  \E n \in Derived :
    LET p == ctxs[n].parent
    IN  /\ p \in Derived
        /\ NearestLayer(n, "a") = ctxs[p].parent
        /\ NearestLayer(n, "b") = n
        /\ "b" \in DOMAIN ctxs[p].upd /\ ctxs[p].upd["b"] # ctxs[n].upd["b"]
        /\ ctxs[n].c.items["a"] = ctxs[ctxs[p].parent].upd["a"]

\* ------------------------------------------------ C13, C14, C15 (SpecState)
\* The step is a to_child call: r is what it returned, s its receiver.
IsToChild == Len(states') = Len(states) + 1 /\ Len(states) > 0
NoSubtree(a) == a.student_subtree = 0 \/ a.solution_subtree = 0

\* C13: to_child with the student's or the solution's subtree absent (and
\* no highlight argument) returns a State with the receiver's tree
\* positions, code, parent link, process handles, highlight and
\* highlighting_disabled, and no new level in the parent chain.
C13_NoDescent ==
  [][(/\ IsToChild /\ NoSubtree(slast'.args)
      /\ slast'.args.highlight = 0
      /\ slast'.args.highlighting_disabled = "None") =>
       LET s == states[slast'.recv]
           r == states'[slast'.res]
       IN  /\ r.student_tree = s.student_tree
           /\ r.solution_tree = s.solution_tree
           /\ r.student_code = s.student_code
           /\ r.solution_code = s.solution_code
           /\ r.parent_state = s.parent_state
           /\ r.descents = s.descents
           /\ r.student_process = s.student_process
           /\ r.solution_process = s.solution_process
           /\ r.highlight = s.highlight
           /\ r.highlighting_disabled = s.highlighting_disabled]_vars

\* Following the parent links from State n ends, within k links, at a
\* State with no parent.
RECURSIVE EndsAtRoot(_, _)
EndsAtRoot(n, k) ==
  IF states[n].parent_state = 0 THEN states[n].descents = 0
  ELSE k > 0 /\ EndsAtRoot(states[n].parent_state, k - 1)

C14_Handles ==
  \A n \in 1..Len(states) :
    /\ states[n].student_process = RootState.student_process
    /\ states[n].solution_process = RootState.solution_process
    /\ states[n].parent_state = 0 <=> states[n].descents = 0
    /\ EndsAtRoot(n, Len(states))

C14_Descent ==
  (IsToChild /\ ~NoSubtree(slast'.args)) =>
     states'[slast'.res].parent_state = slast'.recv

\* C14: every State derived from the root by to_child calls has the root's
\* process handles; its parent link is None exactly when no call on the way
\* descended; a descent with two subtrees gives a State whose parent link
\* is the receiver; the parent links lead to a State without parent.
C14_Chain == [](C14_Handles) /\ [][C14_Descent]_vars

\* A State two descents below the root, and a copy of the root.
C14_Witness ==
  /\ \E n \in 1..Len(states) :
       /\ states[n].descents = 2
       /\ states[n].parent_state # 0
       /\ states[states[n].parent_state].parent_state = 1
  /\ Len(states) = 3

\* The message of an append_message argument, as the trail holds it.
AsMsg(m) == IF m.dict THEN Msg(m.msg, m.kwargs) ELSE Msg(m.msg, EmptyNs)
C15_Receiver == \A n \in 1..Len(states) : states'[n] = states[n]

\* C15 as claimed: with a message the trail of the result is the receiver's
\* followed by the message; without one it equals the receiver's; the
\* receiver is as it was.
C15_TrailAsClaimed ==
  [][IsToChild =>
       LET s == states[slast'.recv]
           r == states'[slast'.res]
           m == slast'.args.append_message
       IN  /\ (m # StrMessage("")) => r.messages = s.messages \o <<AsMsg(m)>>
           /\ (m = StrMessage("")) => r.messages = s.messages
           /\ C15_Receiver]_vars

\* C15, amended: the trail of the result is always the receiver's followed
\* by one entry, the message given or, without one, an entry with the
\* empty text and no kwargs; the receiver is as it was.
C15_Trail ==
  [][IsToChild =>
       LET s == states[slast'.recv]
           r == states'[slast'.res]
           m == slast'.args.append_message
       IN  /\ Len(r.messages) = Len(s.messages) + 1
           /\ \A j \in 1..Len(s.messages) : r.messages[j] = s.messages[j]
           /\ r.messages[Len(r.messages)] = AsMsg(m)
           /\ C15_Receiver]_vars

\* A trail of two entries: a message of the first call, then the entry
\* with the empty text of a call without message.
C15_Witness ==
  \E n \in 1..Len(states) :
    /\ Len(states[n].messages) = 2
    /\ states[n].messages[1] = Msg("m", EmptyNs)
    /\ states[n].messages[2] = Msg("", EmptyNs)
    /\ slast.res = n /\ slast.args.append_message = StrMessage("")

\* ---------------------------------------------------- C16, C17 (SpecDisp)
C16_Once == \A P \in Parsers, t \in Trees : visits[P, t] <= 1
C16_FromCache ==
  \A P \in Parsers, t \in Trees : visits[P, t] >= 1 => visits'[P, t] = visits[P, t]

\* C16: over any requests to one Dispatcher a visitor of a kind is run
\* over a tree at most once; once it has run, a request for the same kind
\* and tree runs none.
C16_AtMostOnce == [](C16_Once) /\ [][C16_FromCache]_vars

\* The same fact has been asked for again after its visitor had run.
C16_Witness ==
  /\ dlast.name = "function_calls" /\ dlast.tree = 1
  /\ visits["FunctionParser", 1] = 1
  /\ visits["ObjectAccessParser", 1] = 1
  /\ cache_key("FunctionParser", 1) \in DOMAIN parser_cache

\* C17: every function-call or object-access fact the Dispatcher returns
\* for a tree was found by a visitor that had the pre-exercise mappings
\* before it ran, whatever was requested before.
C17_Seeded ==
  dlast.name \in {"function_calls", "object_accesses"} =>
    Imports(PreTree) \subseteq dlast.res.names

\* --------------------------------------------------------- C18 (SpecParse)
External(text) ==
  /\ <<reports, plast>>' # <<reports, plast>>
  /\ plast'.test /\ plast'.text = text
OneFailure(feedback) ==
  /\ reports' = Append(reports, Fail(feedback))
  /\ plast'.returned /\ plast'.res = NoneNone
C18_Step ==
  /\ \A text \in Codes : External(text) => plast'.raised = "None"
  /\ External("indent") =>
       OneFailure("Your code could not be parsed due to an error in the "
                  \o "indentation:<br>'unexpected indent (script.py, line 1).'")
  /\ External("tabs") =>
       OneFailure("Your code could not be parsed due to an error in the "
                  \o "indentation:<br>'inconsistent use of tabs and spaces in "
                  \o "indentation (script.py, line 3).'")
  /\ External("syntax") =>
       OneFailure("Your code can not be executed due to a syntax error:<br>'"
                  \o "invalid syntax (script.py, line 1).'")
  /\ External("nontext") =>
       OneFailure("Something went wrong while parsing your code.")
  /\ External("interrupt") =>
       OneFailure("Something went wrong while parsing your code.")

\* C18: parse_external lets no exception of the parse escape: an
\* indentation error gives one failure with the indentation message, any
\* other syntax error one failure with the syntax message, any other
\* exception one generic failure, and each of these calls returns
\* (None, None).
C18_ParseExternal == [][C18_Step]_vars

\* An indentation error, a syntax error and another exception have each
\* been reported, the last call being the one with mixed tabs.
C18_Witness ==
  /\ plast.test /\ plast.text = "tabs" /\ plast.returned
  /\ plast.res = NoneNone
  /\ Len(reports) = 3
  /\ reports[1].feedback = GenericFeedback
  /\ reports[2].feedback =
       SyntaxFeedback([Exc("SyntaxError", "invalid syntax", 1)
                         EXCEPT !.filename = "script.py"])

\* ------------------------------------------------------ C19, C20 (SpecRun)
\* The solution's program was run and raised, and nothing else went wrong:
\* the student's program was run too.
SolutionRaised ==
  /\ rlast.op \in {"run_exercise", "run"}
  /\ rlast.sol_seen # "" /\ rlast.sol.code = <<Raise>>
  /\ rlast.stu_seen # ""

\* C19: when the solution's program raises while run_exercise or run runs
\* it, the call ends with a fatal instructor error: it does not return,
\* and the failure is not in the learner's error slot.
C19_SolutionFatal ==
  SolutionRaised =>
    /\ ~rlast.returned /\ rlast.raised = "InstructorError"
    /\ rlast.stu.code = <<>> => rlast.error = NoneV

\* The directory a program is to run in: its own, or the caller's.
DirOf(wd, before) == IF wd = "" THEN before ELSE wd

\* C20: run_exercise leaves the caller's working directory as it was before
\* the call, however the two runs end, and each program that runs starts in
\* its own directory.
C20_WorkingDir ==
  rlast.op = "run_exercise" =>
    /\ rlast.after = rlast.before
    /\ rlast.sol_seen \in {"", DirOf(rlast.sol_wd, rlast.before)}
    /\ rlast.stu_seen \in {"", DirOf(rlast.stu_wd, rlast.before)}
    /\ rlast.returned =>
         /\ rlast.sol_seen = DirOf(rlast.sol_wd, rlast.before)
         /\ rlast.stu_seen = DirOf(rlast.stu_wd, rlast.before)

\* A call whose solution ran in its own directory and changed it, and whose
\* student process did not start: the caller is where it was.
C20_Witness ==
  /\ rlast.op = "run_exercise" /\ rlast.m = "stub"
  /\ rlast.sol.cd = "/tmp" /\ rlast.sol_wd = "/home/solution"
  /\ rlast.sol_seen = "/home/solution"
  /\ rlast.stu_wd = "/missing" /\ rlast.raised = "FileNotFoundError"
  /\ rlast.before = "/home/repl" /\ cwd = "/home/repl"

\* -------------------------------------------------------------- C21 (Spec)
TakesKill(w) == Taken(w) /\ Head(task_queue[w]).kind = "kill"
C21_Step ==
  \A w \in Workers :
    /\ TakesKill(w) =>
         /\ result_queue'[w] =
              Append(result_queue[w],
                     ValueAnswer(Head(task_queue[w]).id, "None"))
         /\ proc'[w] = "returned"
    /\ next_task[w] = "kill" => ~Taken(w) /\ proc'[w] # "loop"

\* C21: the worker that takes a TaskKillProcess pushes its result, None,
\* and leaves the loop; it takes no task after that, so a task queued
\* after the shutdown task is never executed.
C21_Shutdown == [][C21_Step]_vars

\* A worker has left its loop on a shutdown task and a task queued after
\* it is still on its task queue.
C21_Witness ==
  \E w \in Workers :
    /\ next_task[w] = "kill" /\ proc[w] \in {"returned", "exited"}
    /\ task_queue[w] # <<>>

\* ---------------------------------------------------------- C22 (SpecKill)
KillCalled(w) == klast'.n = klast.n + 1 /\ klast'.w = w
C22_Step ==
  \A w \in Workers :
    KillCalled(w) =>
      /\ (w \in klast.done /\ proc[w] \in {"new", "exited"}) =>
           /\ UNCHANGED wvars
           /\ klast'.ended = "returned"
      /\ proc[w] = "new" =>
           /\ instances' = Remove(instances, w)
           /\ UNCHANGED <<proc, task_queue, result_queue, next_task, nsub,
                          cpc, call, ka>>
           /\ klast'.ended = "returned"

\* C22: kill() on a worker on which a kill() has returned, and that was not
\* started since, sends no shutdown task, leaves the registry and both
\* queues as they are and returns; kill() on a worker that was never
\* started only removes it from the registry.
C22_Idempotent == [][C22_Step]_vars

\* A worker that was alive has been killed, and killed again.
C22_Witness ==
  /\ klast.again /\ klast.ended = "returned" /\ ~klast.alive
  /\ proc[klast.w] = "exited" /\ klast.w \notin Range(instances)
  /\ next_task[klast.w] = "kill"

\* ------------------------------------------------------- C23 (SpecPersist)
BoundTo(p, n, v) ==
  n \in DOMAIN shells[p].user_ns /\ shells[p].user_ns[n] = v
\* TaskIsDefined answers by the bindings of the process as they are.
C23_Defined ==
  /\ last.op = "IsDefined" =>
       last.res = BoolV(last.name \in DOMAIN shells[last.p].user_ns)
  /\ (last.op = "IsDefined" /\ last.p = "stu" /\ last.name = "b") =>
       last.res = BoolV(TRUE)
  /\ Running =>
       /\ BoundTo("stu", "a", IntV(1))
       /\ BoundTo("stu", "b", IntV(2))
  /\ (last.op = "EvalAst" /\ last.p = "stu") =>
       /\ last.res = BoolV(TRUE)
       /\ BoundTo("stu", TempName, IntV(2))
\* No task unbinds a name of a process.
C23_Kept ==
  Running =>
    \A p \in Procs :
      DOMAIN shells[p].user_ns \subseteq DOMAIN shells'[p].user_ns

\* C23: the bindings made by code run in a process stay for every later
\* task: after run_single_process("a = 1", "b = a + 1") b is reported
\* defined and evaluating b stages 2, and a name bound by an earlier task is
\* reported defined by every later TaskIsDefined.
C23_Persist == [](C23_Defined) /\ [][C23_Kept]_vars

\* In mode simple, after other tasks have run on the student's process, b
\* has been evaluated and the value 2 is staged, and c is bound too.
C23_Witness ==
  /\ mode = "simple" /\ last.op = "EvalAst" /\ last.p = "stu"
  /\ BoundTo("stu", TempName, IntV(2))
  /\ "c" \in DOMAIN shells["stu"].user_ns

\* ----------------------------------------------------------- C24 (SpecSig)
\* Whether the name is in the table, whether the call is a method call
\* whose object evaluates, and the key type(obj).method.
SigGeneric(g) == <<g.env[<<Head(g.name)>>].type>> \o Tail(g.name)
SigMethod(g) ==
  /\ Len(g.mapped_name) > 1 /\ <<Head(g.name)>> \in DOMAIN g.env
  /\ SigGeneric(g) \in g.manual_sigs
SigFound(g) == g.mapped_name \in DOMAIN g.env
\* The signature by the priority: the table by the name, the table by
\* type(obj).method, the callable itself, None.
SigByPriority(g) ==
  IF g.name \in g.manual_sigs THEN ManualSig(g.name)
  ELSE IF SigMethod(g) THEN ManualSig(SigGeneric(g))
  ELSE IF SigFound(g) /\ g.env[g.mapped_name].rsig # ""
  THEN RuntimeSig(g.env[g.mapped_name])
  ELSE NoSig

CheckFails ==
  \/ last.name \notin DOMAIN shells[last.p].user_ns
  \/ last.op = "HasKey" /\ shells[last.p].user_ns[last.name].t # "dict"

\* C25: TaskHasKey and TaskIsInstance answer false, not an exception and
\* not an internal-error payload, when the named object is not bound or the
\* check itself fails.
C25_FalseOnFailure ==
  (last.op \in {"HasKey", "IsInstance"} /\ CheckFails) =>
    last.res = BoolV(FALSE)

\* ----------------------------------------------------------- C26 (SpecRep)
\* The value whose representation is asked for, its class name, and what
\* the claim says the answer is.
RepValue == shells[last.p].user_ns[last.name]
RepClaimed ==
  IF RepValue.t \in DOMAIN last.arg
  THEN IF last.arg[RepValue.t].raises THEN NoneV ELSE Converted(RepValue)
  ELSE IF Picklable(RepValue) THEN Dumps(RepValue) ELSE NoneV

\* C26: getRepresentation gives the output of the converter registered for
\* the class of the staged value when the table has one, else the generic
\* serialization of the value; when the converter or the serialization
\* fails it gives None, and no exception reaches its caller.
C26_Representation ==
  (last.op = "getRepresentation" /\ last.name \in DOMAIN shells[last.p].user_ns)
    => last.res = RepClaimed

\* ------------------------------------------------------- C27 (SpecLearner)
\* run_single_process has returned for the processes, and a later task is
\* answered with its value.
C27_Returned ==
  /\ mode # "raised"
  /\ last.op \in {"CaptureOutput", "IsDefined"} =>
       last.res.t \notin {"raised", "backend-error"}
  /\ last.op = "IsDefined" =>
       last.res = BoolV(last.name \in DOMAIN shells[last.p].user_ns)
\* The run of a code that raises gives an error that is not None.
C27_Error ==
  \A m \in Modes, code \in LearnerCodes :
    (RunExercise(m, <<>>, <<>>, code) /\ Exec(code, EmptyNs).raised) =>
      /\ mode' = m
      /\ stu_error' # NoneV

\* C27: whatever exception the learner's code raises, SystemExit and
\* KeyboardInterrupt included, run_single_process returns with an error
\* message that is not None, and in mode simple the worker answers the
\* tasks that follow.
C27_Learner == [](C27_Returned) /\ [][C27_Error]_vars

\* In mode simple the code bound a and raised SystemExit; the error is
\* there, and the worker has since answered that a is defined.
C27_Witness ==
  /\ mode = "simple" /\ stu_error = StrV("error")
  /\ last.op = "IsDefined" /\ last.name = "a" /\ last.res = BoolV(TRUE)

\* ---------------------------------------------------------- C28 (SpecScope)
\* C28: after TaskBreakDownNewEnv no nested layer is active, neither
\* '__env__' nor '__context_obj__' is in the namespace, whether the set-up
\* before it succeeded, failed part-way, or never happened.
C28_NoLayer ==
  (Running /\ last.op = "BreakDownNewEnv") =>
    /\ ~Sh("stu").has_env
    /\ ~Sh("stu").has_ctx

\* --------------------------------------------------------------- C29 (Spec)
\* The worker w takes the task at the head of its queue in this step.
TakesTask(w) ==
  /\ proc[w] = "loop" /\ task_queue[w] # <<>>
  /\ task_queue'[w] = Tail(task_queue[w])
C29_Step ==
  \A w \in Workers :
    TakesTask(w) =>
      /\ (proc'[w] # "loop") <=> (Head(task_queue[w]).kind = "kill")
      /\ (proc'[w] # "loop") => proc'[w] = "returned"

\* C29: the loop of run() ends only by processing a shutdown task: an
\* iteration whose receive or whose task fails, the first iteration or a
\* later one, leaves the loop running, and a failed receive is not taken
\* for a shutdown.
C29_LoopEnds == [][C29_Step]_vars

\* ---------------------------------------------------------- C30 (SpecStage)
\* The call of this step, by what it stages: nothing (the staging fails, or
\* the target is not bound), or a value.
C30_Step ==
  /\ last'.op = "getObjectAfterExpression" =>
       LET t == last'.task
           env == get_env(Sh("stu"))
           staged == ~SnippetRaises(t) /\ TargetBound(env, t)
       IN  /\ ~staged => last'.bs = NoneV
           /\ (staged /\ last'.bs # NoneV) =>
                last'.bs = Dumps(TargetValue(env, t))
  /\ last'.op = "getTreeResultInProcess" =>
       LET r == Eval(last'.arg, get_env(Sh("stu")))
       IN  last'.bs = IF r.raised THEN NoneV ELSE Dumps(r.v)
  /\ last'.op = "evalInProcess" =>
       LET r == Eval(last'.arg, get_env(Sh("stu")))
       IN  last'.bs = IF r.raised THEN NoneV ELSE Dumps(r.v)

\* C30: in every sequence of the wrappers that stage under
\* '_evaluation_object_', the representation a call returns is that of the
\* value the same call staged; a call whose staging fails, or reports
\* 'undefined', returns no representation, never that of an earlier call.
C30_Fresh == [][C30_Step]_vars

====
